---------------------------- MODULE Spec2Model ----------------------------
(***************************************************************************)
(* State-machine model of the retrieval-augmented response pipeline of     *)
(* rfp_response_generator:                                                 *)
(*   - find_similar_matches        (src/find_matches.py)                   *)
(*   - get_llm_responses, MOA path (src/call_llm.py)                       *)
(*                                                                         *)
(* Vectors are short tuples of small integers.  A cosine similarity is     *)
(* kept exactly, as the pair  [num |-> dot(q, v), den2 |-> |q|^2 * |v|^2]  *)
(* standing for num / sqrt(den2); comparisons cross-multiply squares, so   *)
(* the threshold test and the ranking are those of the real numbers.       *)
(* Texts are tuples of characters, so that "is a substring of" is a fact   *)
(* about the text and not about a name.                                    *)
(***************************************************************************)
EXTENDS Integers, Sequences, FiniteSets, TLC

VARIABLES
    embeddings,      \* table embeddings: id -> [requirement, embedding]
    table,           \* table excel_requirement_responses: id -> row
    embed_of,        \* what the embedding provider answers for the requirement text
    fm,              \* the running find_similar_matches call (its locals and position)
    fm_result,       \* the value find_similar_matches returned
    fm_writes,       \* UPDATEs of the requirement row committed by the running call
    gl,              \* the running get_llm_responses call (its locals and position)
    pf,              \* a call of one of the prompt or response functions: arguments, position, result
    env,             \* repeated runs: the answers the providers give in every run, the
                     \* runs completed and the row the first of them left
    moa,             \* a call of one of the orchestrators of server/moa_*.py: its
                     \* locals, its position and the value it returned
    parked           \* concurrent runs: the get_llm_responses call that is not
                     \* executing at the moment, with its find_similar_matches call

vars == <<embeddings, table, embed_of, fm, fm_result, fm_writes, gl, pf, env, moa, parked>>

(***************************************************************************)
(* Bounds of the model                                                     *)
(***************************************************************************)
MaxCorpus == 6            \* rows of the embeddings table

(***************************************************************************)
(* Program constants                                                       *)
(***************************************************************************)
TopK == 5                 \* similar_matches[:5]
ThresholdPct == 90        \* similarity >= 0.9

\* SQL NULL and a present value of a nullable column: a tuple of no or one value.
NULL == <<>>
Some(x) == <<x>>
None == "None"

CorpusIds == 1..MaxCorpus
ExistingIds == {1}        \* ids that have a row in excel_requirement_responses
ReqIds == {1, 2}          \* ids a caller may pass: one with a row, one without

\* Requirement texts are named by numbers: embeddings row i holds text i, and the
\* requirement's own text is text 1 (an exact-text row exists) or text 0 (none does).
ReqTexts == {0, 1}

\* The embedding column: NULL (not yet computed) or a 2-dimensional vector.
StoredVecs == {NULL, Some(<<1, 0>>), Some(<<3, 1>>)}
\* Answers of the embedding provider: ordinary vectors, the zero vector, and a
\* vector of another dimensionality.
QueryVecs == {<<1, 0>>, <<3, 1>>, <<2, 1>>, <<0, 0>>, <<1>>, <<>>}

\* a text stored in the response columns by an earlier generation run
OldText == <<"o", "l", "d">>

\* no prompt or response function is being called; no answers are fixed
PfIdle == [pc |-> "idle"]
NoEnv == [fixed |-> FALSE]
MoaIdle == [pc |-> "idle"]
NoRun == [pc |-> "none"]

(***************************************************************************)
(* numpy: dot product, norms and the cosine similarity                     *)
(***************************************************************************)
RECURSIVE DotFrom(_, _, _)
DotFrom(a, b, i) ==
    IF i > Len(a) THEN 0 ELSE a[i] * b[i] + DotFrom(a, b, i + 1)

\* np.dot raises ValueError on vectors of different length.
DotRaises(a, b) == Len(a) # Len(b)

Dot(a, b) == DotFrom(a, b, 1)

\* np.linalg.norm(v) squared
Norm2(v) == Dot(v, v)

\* similarity = dot_product / (norm_current * norm_stored), kept exactly.
\* den2 = 0 is the division 0/0 of numpy, whose result is nan.
Similarity(q, v) == [num |-> Dot(q, v), den2 |-> Norm2(q) * Norm2(v)]

IsNaN(s) == s.den2 = 0

\* s >= pct/100 as floats compare: nan compares false with everything.
SimAtLeastPct(s, pct) ==
    /\ ~IsNaN(s)
    /\ s.num >= 0
    /\ 100 * 100 * s.num * s.num >= pct * pct * s.den2

\* s1 > s2, for similarities that are not nan and not negative
SimGreater(s1, s2) == s1.num * s1.num * s2.den2 > s2.num * s2.num * s1.den2

SimEqual(s1, s2) == s1.num * s1.num * s2.den2 = s2.num * s2.num * s1.den2

(***************************************************************************)
(* find_similar_matches: the pure parts                                    *)
(***************************************************************************)
\* SELECT COUNT(*) FROM embeddings WHERE requirement = (the requirement's text)
EmbeddingCount(text) ==
    Cardinality({i \in CorpusIds : embeddings[i].requirement = text})

\* SELECT ... FROM embeddings e WHERE e.embedding IS NOT NULL ORDER BY e.id
RECURSIVE AllEmbeddingsFrom(_)
AllEmbeddingsFrom(i) ==
    IF i > MaxCorpus THEN <<>>
    ELSE IF embeddings[i].embedding # NULL
         THEN <<i>> \o AllEmbeddingsFrom(i + 1)
         ELSE AllEmbeddingsFrom(i + 1)

AllEmbeddings == AllEmbeddingsFrom(1)

\* the threshold test with a looser threshold (0.8)
PassesLooseThreshold(s) == SimAtLeastPct(s, 80)

\* if similarity >= 0.9
PassesThreshold(s) == SimAtLeastPct(s, ThresholdPct)

\* The loop over all_embeddings: a row whose similarity computation raises is
\* skipped (except ... continue), a row below the threshold is not appended.
RECURSIVE CollectMatches(_, _, _)
CollectMatches(q, rows, k) ==
    IF k > Len(rows) THEN <<>>
    ELSE LET id == rows[k]
             v  == embeddings[id].embedding[1]
         IN  IF DotRaises(q, v) THEN CollectMatches(q, rows, k + 1)
             ELSE IF PassesThreshold(Similarity(q, v))
                  THEN <<[id |-> id, similarity_score |-> Similarity(q, v)]>>
                           \o CollectMatches(q, rows, k + 1)
                  ELSE CollectMatches(q, rows, k + 1)

\* list.sort(key=similarity_score, reverse=True): a stable sort, so entries of
\* equal score keep the order they had.  Insert m behind every entry whose
\* score is at least m's.
RECURSIVE InsertDesc(_, _)
InsertDesc(sorted, m) ==
    IF sorted = <<>> THEN <<m>>
    ELSE IF SimGreater(m.similarity_score, Head(sorted).similarity_score)
         THEN <<m>> \o sorted
         ELSE <<Head(sorted)>> \o InsertDesc(Tail(sorted), m)

RECURSIVE SortFrom(_, _, _)
SortFrom(ms, k, acc) ==
    IF k > Len(ms) THEN acc ELSE SortFrom(ms, k + 1, InsertDesc(acc, ms[k]))

SortMatches(ms) == SortFrom(ms, 1, <<>>)

\* similar_matches[:5]
Limit(ms) == SubSeq(ms, 1, IF Len(ms) < TopK THEN Len(ms) ELSE TopK)

\* payload_data.get('customer', '') of embeddings row id: the rows 1 and 3
\* name a customer in their payload, the others have none
PayloadCustomer(id) ==
    CASE id = 1 -> <<"Acme">>
      [] id = 3 -> <<"Globex">>
      [] OTHER -> <<>>

\* similar_questions_for_db: what is written to the similar_questions column
\* (json.dumps of the list)
\* The question is named by the embeddings row it came from, the reference is
\* "Match #<id>".
SimilarQuestionsForDb(ms) ==
    [format |-> "json",
     items |-> [k \in 1..Len(ms) |->
                  [question |-> ms[k].id, response |-> ms[k].id,
                   reference |-> <<"Match #", ms[k].id>>,
                   customer |-> PayloadCustomer(ms[k].id),
                   similarity_score |-> ms[k].similarity_score]]]

(***************************************************************************)
(* find_similar_matches: return values                                     *)
(***************************************************************************)
Returned(success, matches, warning, error) ==
    [success |-> success, similar_matches |-> matches,
     warning |-> warning, error |-> error, raised |-> FALSE]

\* return {"success": False, "error": "No requirement found with ID: ..."}
NotFoundResult == Returned(FALSE, <<>>, FALSE, "not_found")

\* the early return when no embeddings row has the requirement's exact text
NoEmbeddingsResult == Returned(TRUE, <<>>, TRUE, None)

\* except Exception as e (around embeddings.create): return success False
EmbeddingFailureResult == Returned(FALSE, <<>>, FALSE, "embedding")

\* an outer handler that logs and re-raises instead of returning
OuterExceptReraises ==
    [success |-> FALSE, similar_matches |-> <<>>, warning |-> FALSE,
     error |-> "store", raised |-> TRUE]

\* the outer  except Exception as e: return {"success": False, "error": str(e)}
OuterExceptResult == Returned(FALSE, <<>>, FALSE, "store")

\* the final return: {"success": True, "requirement": ..., "similar_matches": ...}
SuccessResult(ms) == Returned(TRUE, ms, FALSE, None)

FmIdle == [pc |-> "idle", req_id |-> None, current_embedding |-> NULL,
           similar_matches |-> <<>>, faults |-> {}]

FmReturn(r) ==
    /\ fm' = [fm EXCEPT !.pc = "done"]
    /\ fm_result' = r

(***************************************************************************)
(* find_similar_matches: the steps                                         *)
(***************************************************************************)
\* entering the function
FmStart(rid) ==
    /\ fm.pc = "idle"
    /\ fm' = [FmIdle EXCEPT !.pc = "lookup", !.req_id = rid]
    /\ fm_result' = None
    /\ fm_writes' = 0
    /\ UNCHANGED <<moa, parked, pf, env, embeddings, table, embed_of>>

\* a direct call (the command line, the API wrapper)
FM_Call(rid) ==
    /\ gl.pc = "idle"
    /\ FmStart(rid)
    /\ UNCHANGED gl

\* engine.connect() and the SELECT of the requirement row
FM_Lookup(storeError) ==
    /\ fm.pc = "lookup"
    /\ IF storeError
       THEN /\ fm' = [fm EXCEPT !.pc = "done", !.faults = @ \cup {"store"}]
            /\ fm_result' = OuterExceptResult
       ELSE IF fm.req_id \notin DOMAIN table
            THEN /\ fm' = [fm EXCEPT !.pc = "done", !.faults = @ \cup {"missing"}]
                 /\ fm_result' = NotFoundResult
            ELSE /\ fm' = [fm EXCEPT !.pc = "count"]
                 /\ UNCHANGED fm_result
    /\ UNCHANGED <<moa, parked, pf, env, embeddings, table, embed_of, fm_writes, gl>>

\* the COUNT(*) of embeddings rows with the requirement's exact text
FM_CountCheck(storeError) ==
    /\ fm.pc = "count"
    /\ IF storeError
       THEN /\ fm' = [fm EXCEPT !.pc = "done", !.faults = @ \cup {"store"}]
            /\ fm_result' = OuterExceptResult
       ELSE IF EmbeddingCount(table[fm.req_id].requirement) = 0
            THEN FmReturn(NoEmbeddingsResult)
            ELSE /\ fm' = [fm EXCEPT !.pc = "embed"]
                 /\ UNCHANGED fm_result
    /\ UNCHANGED <<moa, parked, pf, env, embeddings, table, embed_of, fm_writes, gl>>

\* the second SELECT of the requirement text, then client.embeddings.create
FM_Embed(storeError, providerError) ==
    /\ fm.pc = "embed"
    /\ IF storeError
       THEN /\ fm' = [fm EXCEPT !.pc = "done", !.faults = @ \cup {"store"}]
            /\ fm_result' = OuterExceptResult
       ELSE IF providerError
            THEN /\ fm' = [fm EXCEPT !.pc = "done", !.faults = @ \cup {"embedding"}]
                 /\ fm_result' = EmbeddingFailureResult
            ELSE /\ fm' = [fm EXCEPT !.pc = "scan", !.current_embedding = Some(embed_of)]
                 /\ UNCHANGED fm_result
    /\ UNCHANGED <<moa, parked, pf, env, embeddings, table, embed_of, fm_writes, gl>>

\* fetch all embeddings, compute the similarities, sort, keep the top 5
FM_Scan(storeError) ==
    /\ fm.pc = "scan"
    /\ IF storeError
       THEN /\ fm' = [fm EXCEPT !.pc = "done", !.faults = @ \cup {"store"}]
            /\ fm_result' = OuterExceptResult
       ELSE /\ fm' = [fm EXCEPT !.pc = "store",
                        !.similar_matches =
                            Limit(SortMatches(
                                CollectMatches(fm.current_embedding[1], AllEmbeddings, 1)))]
            /\ UNCHANGED fm_result
    /\ UNCHANGED <<moa, parked, pf, env, embeddings, table, embed_of, fm_writes, gl>>

\* if similar_questions_for_db: UPDATE ... SET similar_questions; commit.
\* Then the final return.  A failing execute or commit raises into the outer
\* except, and the uncommitted UPDATE is lost with the connection.
FM_Store(writeError) ==
    /\ fm.pc = "store"
    /\ IF fm.similar_matches # <<>>
       THEN IF writeError
            THEN /\ fm' = [fm EXCEPT !.pc = "done", !.faults = @ \cup {"write"}]
                 /\ fm_result' = OuterExceptResult
                 /\ UNCHANGED <<table, fm_writes>>
            ELSE /\ table' = [table EXCEPT ![fm.req_id].similar_questions =
                                  Some(SimilarQuestionsForDb(fm.similar_matches))]
                 /\ fm_writes' = fm_writes + 1
                 /\ FmReturn(SuccessResult(fm.similar_matches))
       ELSE /\ writeError = FALSE
            /\ FmReturn(SuccessResult(fm.similar_matches))
            /\ UNCHANGED <<table, fm_writes>>
    /\ UNCHANGED <<moa, parked, pf, env, embeddings, embed_of, gl>>

(***************************************************************************)
(* What the retrieval should return, stated without the code's loop and    *)
(* sort: the records that qualify for a query vector and their ranking.    *)
(***************************************************************************)
\* Records with a non-null embedding whose cosine similarity with q exists
\* and is at least 0.90 (the literal of the claims, not the code's constant).
Qualifying(q) ==
    {i \in CorpusIds :
        /\ embeddings[i].embedding # NULL
        /\ Len(embeddings[i].embedding[1]) = Len(q)
        /\ LET s == Similarity(q, embeddings[i].embedding[1])
           IN  s.den2 > 0 /\ s.num > 0 /\ 10000 * s.num * s.num >= 8100 * s.den2}

SimOf(q, i) == Similarity(q, embeddings[i].embedding[1])

\* i is ranked before j: higher similarity, or equal similarity and lower id
Outranks(q, i, j) ==
    \/ SimGreater(SimOf(q, i), SimOf(q, j))
    \/ SimEqual(SimOf(q, i), SimOf(q, j)) /\ i < j

RankOf(q, i) == 1 + Cardinality({j \in Qualifying(q) : Outranks(q, j, i)})

\* the first 5 of the qualifying records in ranking order
IsRankedTop(q, ms) ==
    /\ Len(ms) = (IF Cardinality(Qualifying(q)) < 5
                  THEN Cardinality(Qualifying(q)) ELSE 5)
    /\ \A k \in 1..Len(ms) :
          /\ ms[k].id \in Qualifying(q)
          /\ RankOf(q, ms[k].id) = k
          /\ SimEqual(ms[k].similarity_score, SimOf(q, ms[k].id))

FmDone == fm.pc = "done"

(***************************************************************************)
(* C1: every match returned by find_similar_matches has a similarity score *)
(* of at least 0.90.                                                       *)
(***************************************************************************)
C1_ThresholdInvariant ==
    FmDone =>
        \A k \in 1..Len(fm_result.similar_matches) :
            LET s == fm_result.similar_matches[k].similarity_score
            IN  /\ s.den2 > 0
                /\ s.num > 0
                /\ 10000 * s.num * s.num >= 8100 * s.den2

\* a call returned several matches, one of them scoring below 1.0
C1_Witness ==
    /\ FmDone
    /\ Len(fm_result.similar_matches) >= 2
    /\ \E k \in 1..Len(fm_result.similar_matches) :
          LET s == fm_result.similar_matches[k].similarity_score
          IN  s.num * s.num < s.den2

(***************************************************************************)
(* C2: the list a successful call returns is the first 5 of the qualifying *)
(* records (cosine similarity >= 0.90 with the requirement's embedding)    *)
(* sorted by similarity descending, ties by ascending record id.           *)
(***************************************************************************)
C2_ReturnsRankedTopFive ==
    (FmDone /\ fm_result.success) =>
        IsRankedTop(embed_of, fm_result.similar_matches)

\* The same statement on the calls that reached the scan: there it holds.
C2_RankedWhenScanned ==
    (FmDone /\ fm_result.success /\ fm.current_embedding # NULL) =>
        IsRankedTop(embed_of, fm_result.similar_matches)

(***************************************************************************)
(* C3: for an existing requirement, with or without an exact-text row in   *)
(* the embeddings table, whenever some record with a non-null embedding    *)
(* has cosine similarity >= 0.90 with the requirement's fresh embedding,   *)
(* the returned list is non-empty and contains the highest-scoring record. *)
(***************************************************************************)
C3_FreshEmbeddingFindsBest ==
    (FmDone /\ fm.req_id \in DOMAIN table /\ fm.faults = {}
            /\ Qualifying(embed_of) # {}) =>
        /\ fm_result.similar_matches # <<>>
        /\ \E k \in 1..Len(fm_result.similar_matches) :
              RankOf(embed_of, fm_result.similar_matches[k].id) = 1

(***************************************************************************)
(* C4: when the embedding was obtained and no corpus record reaches 0.90,  *)
(* the call returns success=true, an empty match list and a warning.       *)
(***************************************************************************)
C4_EmptyMatchHasWarning ==
    (FmDone /\ fm.current_embedding # NULL /\ fm.faults = {}
            /\ Qualifying(fm.current_embedding[1]) = {}) =>
        /\ fm_result.success
        /\ fm_result.similar_matches = <<>>
        /\ fm_result.warning

(***************************************************************************)
(* C5: no exception escapes find_similar_matches: a missing requirement    *)
(* id, an embedding-provider failure or a store error gives a result with  *)
(* success=false and an error message, and the missing-requirement and     *)
(* embedding-failure cases write nothing to the requirement row.           *)
(***************************************************************************)
C5_FailuresAreResults ==
    FmDone =>
        /\ ~fm_result.raised
        /\ (fm.faults # {}) =>
              (~fm_result.success /\ fm_result.error # None)
        /\ (fm.faults \cap {"missing", "embedding"} # {}) => fm_writes = 0

\* an embedding-provider failure was returned as a result
C5_Witness ==
    /\ FmDone
    /\ "embedding" \in fm.faults
    /\ ~fm_result.success
    /\ fm_writes = 0
    /\ moa = MoaIdle
    /\ parked = NoRun

(***************************************************************************)
(* C6: if the write of the similar_questions snapshot fails after the      *)
(* matches were computed, the call still returns success=true with the     *)
(* computed match list.                                                    *)
(***************************************************************************)
C6_WriteFailureIsNotFatal ==
    (FmDone /\ "write" \in fm.faults) =>
        /\ fm_result.success
        /\ fm_result.similar_matches = fm.similar_matches

(***************************************************************************)
(* call_llm.py: prompt_gpt                                                 *)
(***************************************************************************)
\* the models of the MOA fan-out, in the order of the list `models`
Providers == <<"openai", "deepseek", "anthropic">>

\* config['display_name']
DisplayName(model_name) ==
    CASE model_name = "openai" -> "OpenAI"
      [] model_name = "deepseek" -> "DeepSeek"
      [] model_name = "anthropic" -> "Anthropic"

Whitespace == {" ", "\n"}

\* str.strip()
RECURSIVE LStrip(_)
LStrip(t) ==
    IF t # <<>> /\ Head(t) \in Whitespace THEN LStrip(Tail(t)) ELSE t

RECURSIVE RStrip(_)
RStrip(t) ==
    IF t # <<>> /\ t[Len(t)] \in Whitespace
    THEN RStrip(SubSeq(t, 1, Len(t) - 1)) ELSE t

Strip(t) == RStrip(LStrip(t))

\* the text returned for a response that is empty after stripping
Placeholder(display_name) ==
    <<"The system encountered an issue with the ", display_name,
      " response. Please try again or use another model.">>

\* What a provider does with one request: the call or the response handler
\* raises (missing key, network error, timeout, malformed response), or the
\* handler yields the content.
Raises == [raises |-> TRUE, content |-> <<>>]
Content(c) == [raises |-> FALSE, content |-> c]
RawContents == {<<"a">>, <<" ", "b", "c", " ">>, <<" ">>}
ApiOutcomes == {Raises} \cup {Content(c) : c \in RawContents}

\* prompt_gpt(prompt, model_name): the exception is re-raised; the content is
\* stripped and, when nothing is left, replaced by the placeholder.
PromptGpt(model_name, outcome) ==
    IF outcome.raises
    THEN [raised |-> TRUE, value |-> NULL]
    ELSE LET content == Strip(outcome.content)
         IN  IF content = <<>>
             THEN [raised |-> FALSE,
                   value |-> Some(Placeholder(DisplayName(model_name)))]
             ELSE [raised |-> FALSE, value |-> Some(content)]

\* model_name.lower(), with claude standing for anthropic
NormalizedName(model_name) ==
    CASE model_name \in {"openai", "openAI"} -> "openai"
      [] model_name = "deepseek" -> "deepseek"
      [] model_name \in {"anthropic", "claude"} -> "anthropic"

RequiresSystemMessageHandling(normalized_name) == normalized_name = "anthropic"

DefaultSystemMessage ==
    <<"All responses and data must be treated as private and confidential. Do not use for training or any other purpose.">>

\* the content of the first message with role system, if there is one
FirstSystemContent(prompt) ==
    LET at == {i \in DOMAIN prompt : prompt[i].role = "system"}
    IN  IF at = {} THEN NULL
        ELSE Some(prompt[CHOOSE i \in at : \A j \in at : i <= j].content)

WithoutSystem(prompt) == SelectSeq(prompt, LAMBDA msg : msg.role # "system")

\* the arguments of the API call prompt_gpt makes: for a provider that takes
\* the system message separately, the first system message of the prompt (or
\* the default one) goes to `system` and the other messages to `messages`
Request(model_name, prompt) ==
    IF RequiresSystemMessageHandling(NormalizedName(model_name))
    THEN [api |-> "messages.create",
          system |-> IF FirstSystemContent(prompt) = NULL
                     THEN Some(DefaultSystemMessage)
                     ELSE FirstSystemContent(prompt),
          messages |-> WithoutSystem(prompt)]
    ELSE IF NormalizedName(model_name) = "openai"
    THEN [api |-> "responses.create", system |-> NULL, messages |-> prompt]
    ELSE [api |-> "chat.completions.create", system |-> NULL, messages |-> prompt]

(***************************************************************************)
(* call_llm.py: extract_text and the response handlers                     *)
(*                                                                         *)
(* A raw response is a str or an object.  An attribute of an object is     *)
(* absent, None, an int, a str or a list; only content is ever a list (of  *)
(* blocks) here, and choices is absent or a list of choices.               *)
(***************************************************************************)
MaxBlocks == 2

Absent == [t |-> "absent", v |-> <<>>, blocks |-> <<>>]
NoneValue == [t |-> "none", v |-> <<>>, blocks |-> <<>>]
IntValue == [t |-> "int", v |-> <<"7">>, blocks |-> <<>>]
StrValue(s) == [t |-> "str", v |-> s, blocks |-> <<>>]
ListValue(blocks) == [t |-> "list", v |-> <<>>, blocks |-> blocks]

\* a block of a content list: an object that may have a text attribute, or a
\* dict that may have a 'text' key
ObjectBlock(text) == [kind |-> "object", text |-> text]
DictBlock(text) == [kind |-> "dict", text |-> text]

NoMessage == [t |-> "absent", content |-> Absent]
Message(content) == [t |-> "object", content |-> content]

NoChoices == [t |-> "absent", items |-> <<>>]
Choices(items) == [t |-> "list", items |-> items]
Choice(message) == [message |-> message]

StrResponse(s) ==
    [kind |-> "str", s |-> s, output_text |-> Absent, content |-> Absent,
     text |-> Absent, message |-> NoMessage, choices |-> NoChoices]

ObjectResponse(output_text, content, text, message, choices) ==
    [kind |-> "object", s |-> <<>>, output_text |-> output_text, content |-> content,
     text |-> text, message |-> message, choices |-> choices]

\* what extract_text hands back: an exception or a str
Raised == [raised |-> TRUE, kind |-> "none", value |-> <<>>]
ReturnStr(s) == [raised |-> FALSE, kind |-> "str", value |-> s]

\* str(x) of an object, of None and of an int
StrOfObject == <<"<response object>">>
StrOf(attr) == IF attr.t = "none" THEN <<"None">> ELSE attr.v

\* repr of a block inside str(list)
ReprBlock(block) == IF block.kind = "dict" THEN "{...}" ELSE "TextBlock(...)"

\* str(response.content) for a list: "[" + ", ".join(repr) + "]"
RECURSIVE ReprBlocks(_)
ReprBlocks(blocks) ==
    IF blocks = <<>> THEN <<>>
    ELSE IF Len(blocks) = 1 THEN <<ReprBlock(blocks[1])>>
    ELSE <<ReprBlock(blocks[1]), ", ">> \o ReprBlocks(Tail(blocks))

StrOfList(blocks) == <<"[">> \o ReprBlocks(blocks) \o <<"]">>

\* ' '.join(texts)
RECURSIVE JoinTexts(_)
JoinTexts(texts) ==
    IF texts = <<>> THEN <<>>
    ELSE IF Len(texts) = 1 THEN texts[1]
    ELSE texts[1] \o <<" ">> \o JoinTexts(Tail(texts))

\* hasattr(block, 'text'): a dict has keys, not attributes
HasTextAttr(block) == block.kind = "object" /\ block.text.t # "absent"

\* the branch for a content list: the join of the blocks' text, then
\* content[0]['text'], then str(response.content); an exception in either
\* of the first two is caught and the next is tried
ExtractFromContentList(blocks) ==
    LET with_text == SelectSeq(blocks, HasTextAttr)
        join_raises == \E i \in DOMAIN with_text : with_text[i].text.t # "str"
        result == JoinTexts([i \in DOMAIN with_text |-> with_text[i].text.v])
    IN  IF ~join_raises /\ result # <<>> THEN ReturnStr(result)
        ELSE IF /\ blocks # <<>>
                /\ blocks[1].kind = "dict"
                /\ blocks[1].text.t = "str"
        THEN ReturnStr(blocks[1].text.v)
        ELSE ReturnStr(StrOfList(blocks))

\* the branch for response.message.content: content[0].text when content is
\* a non-empty list whose first block has a text attribute; len(None) raises
\* inside the try and the function goes on
MessageContentText(message) ==
    IF /\ message.t = "object"
       /\ message.content.t = "list"
       /\ message.content.blocks # <<>>
       /\ HasTextAttr(message.content.blocks[1])
       /\ message.content.blocks[1].text.t = "str"
    THEN Some(message.content.blocks[1].text.v)
    ELSE NULL

\* the loop over message, choices, result, output: only a non-empty list of
\* choices whose first choice has message.content of type str returns
ChoicesContent(choices) ==
    IF /\ choices.t = "list"
       /\ choices.items # <<>>
       /\ choices.items[1].message.t = "object"
       /\ choices.items[1].message.content.t = "str"
    THEN Some(choices.items[1].message.content.v)
    ELSE NULL

\* the branch for response.text: len(response.text) is evaluated outside any
\* try, so a value without a length raises TypeError
TextAttr(text) == IF text.t = "str" THEN ReturnStr(text.v) ELSE Raised

ExtractText(response) ==
    IF response.kind = "str" THEN ReturnStr(response.s)
    ELSE IF response.content.t = "list"
    THEN ExtractFromContentList(response.content.blocks)
    ELSE IF response.content.t = "str" THEN ReturnStr(response.content.v)
    ELSE IF response.content.t # "absent" THEN ReturnStr(StrOf(response.content))
    ELSE IF response.text.t # "absent" THEN TextAttr(response.text)
    ELSE IF MessageContentText(response.message) # NULL
    THEN ReturnStr(MessageContentText(response.message)[1])
    ELSE IF ChoicesContent(response.choices) # NULL
    THEN ReturnStr(ChoicesContent(response.choices)[1])
    ELSE ReturnStr(StrOfObject)

\* str(response)
StrOfResponse(response) == IF response.kind = "str" THEN response.s ELSE StrOfObject

\* config['response_handler'](response) inside prompt_gpt: an exception of
\* the handler, or a value that is not a str, makes prompt_gpt raise
ResponseHandler(normalized_name, response) ==
    CASE normalized_name = "openai" ->
            IF response.kind = "str" \/ response.output_text.t = "absent"
            THEN Content(StrOfResponse(response))
            ELSE IF response.output_text.t = "str"
            THEN Content(Strip(response.output_text.v))
            ELSE Raises
      [] normalized_name = "deepseek" ->
            IF /\ response.kind = "object"
               /\ response.choices.t = "list"
               /\ response.choices.items # <<>>
               /\ response.choices.items[1].message.t = "object"
               /\ response.choices.items[1].message.content.t = "str"
            THEN Content(Strip(response.choices.items[1].message.content.v))
            ELSE Raises
      [] normalized_name = "anthropic" ->
            LET r == ExtractText(response)
            IN  IF r.raised \/ r.kind # "str" THEN Raises ELSE Content(r.value)

(***************************************************************************)
(* generate_prompt.py: create_rfp_prompt                                   *)
(*                                                                         *)
(* A text is a sequence of pieces: words, white space, and the fixed       *)
(* segments of the f-strings.  A similarity_score is a float kept in       *)
(* thousandths, a str holding such a number, or absent from the dict.      *)
(***************************************************************************)
MaxMatches == 4
PromptThresholdPm == 900
MaxExamples == 3
TitleWords == 5

FloatScore(pm) == [kind |-> "float", pm |-> pm]
StrScore(pm) == [kind |-> "str", pm |-> pm]
MissingScore == [kind |-> "missing", pm |-> 0]

\* resp.get('similarity_score', 0)
GetScore(resp) ==
    IF resp.similarity_score.kind = "missing" THEN FloatScore(0)
    ELSE resp.similarity_score

\* every score let through
AtLeastThresholdLoose(pm) == TRUE

\* score >= 0.9
AtLeastThreshold(pm) == pm >= PromptThresholdPm

\* the list comprehension compares each score with 0.9: a str operand makes
\* Python 3 raise TypeError
FilterRaises(previous_responses) ==
    \E k \in DOMAIN previous_responses : GetScore(previous_responses[k]).kind = "str"

HighSimilarityResponses(previous_responses) ==
    SelectSeq(previous_responses, LAMBDA resp : AtLeastThreshold(GetScore(resp).pm))

\* high_similarity_responses[:3]
Cap(rs) == SubSeq(rs, 1, IF Len(rs) < MaxExamples THEN Len(rs) ELSE MaxExamples)

DigitChar(n) == <<"0", "1", "2", "3", "4", "5", "6", "7", "8", "9">>[n + 1]

\* f"{score:.2f}" for a score that is not midway between two hundredths
Fmt2(pm) ==
    LET h == (pm + 5) \div 10
    IN  <<DigitChar(h \div 100), ".", DigitChar((h \div 10) % 10), DigitChar(h % 10)>>

\* requirement_text.split()
Split(text) == SelectSeq(text, LAMBDA piece : piece \notin Whitespace)

\* ' '.join(words)
RECURSIVE JoinSpace(_)
JoinSpace(words) ==
    IF words = <<>> THEN <<>>
    ELSE IF Len(words) = 1 THEN words
    ELSE <<words[1], " ">> \o JoinSpace(Tail(words))

ShortTitle(requirement_text) ==
    LET words == Split(requirement_text)
        title_words == SubSeq(words, 1, IF Len(words) < TitleWords
                                         THEN Len(words) ELSE TitleWords)
    IN  JoinSpace(title_words)
        \o (IF Len(title_words) >= TitleWords THEN <<"...">> ELSE <<>>)

\* the lines added to formatted_examples for one response
FormatExample(i, resp) ==
    LET customer_name == resp.customer
        customer_suffix == IF customer_name # <<>>
                           THEN <<" for ">> \o customer_name ELSE <<>>
    IN  <<"**Source ", DigitChar(i), ": ">> \o ShortTitle(resp.requirement)
        \o customer_suffix
        \o <<" (Similarity: ">> \o Fmt2(GetScore(resp).pm) \o <<")**:\n">>
        \o <<"Original Requirement: ">> \o resp.requirement \o <<"\n">>
        \o <<"Previous Response: ">> \o resp.response \o <<"\n">>
        \o (IF customer_name # <<>>
            THEN <<"Customer/Client: ">> \o customer_name \o <<"\n">> ELSE <<>>)
        \o <<"\n">>

\* the loop over enumerate(high_similarity_responses[:3], 1), with its
\* second test of the score
RECURSIVE FormatExamplesFrom(_, _)
FormatExamplesFrom(rs, i) ==
    IF i > Len(rs) THEN <<>>
    ELSE (IF AtLeastThreshold(GetScore(rs[i]).pm)
          THEN FormatExample(i, rs[i]) ELSE <<>>)
         \o FormatExamplesFrom(rs, i + 1)

FormattedExamples(previous_responses) ==
    IF previous_responses # NULL /\ Len(previous_responses[1]) > 0
    THEN FormatExamplesFrom(Cap(HighSimilarityResponses(previous_responses[1])), 1)
    ELSE <<>>

\* create_rfp_prompt(requirement, category, previous_responses): the three
\* messages, or the TypeError of the comparison
CreateRfpPrompt(requirement, category, previous_responses) ==
    IF previous_responses # NULL /\ FilterRaises(previous_responses[1])
    THEN [raised |-> TRUE, value |-> <<>>]
    ELSE [raised |-> FALSE,
          value |->
            << [role |-> "system",
                content |-> <<"You are a senior RFP specialist ... Requirement Category: ",
                              category, ".\n- Current Requirement: ">>
                            \o requirement
                            \o <<".\n- Audience: ... when available from the source data.\n">>],
               [role |-> "user",
                content |-> <<"You have the following previous responses ... **Previous Responses and Scores**:\n">>
                            \o FormattedExamples(previous_responses)
                            \o <<"\n\n**Instructions**: ... **Current Requirement**: ">>
                            \o requirement \o <<".\n">>],
               [role |-> "user",
                content |-> <<"Review and validate the draft response ... to prevent hallucination.">>] >>]

\* The earlier answers a match may come from: requirement texts of six, two,
\* five and one words, the second with a double blank.
DocRequirement(d) ==
    CASE d = 1 -> <<"a1", " ", "b1", " ", "c1", " ", "d1", " ", "e1", " ", "f1">>
      [] d = 2 -> <<"a2", " ", " ", "b2">>
      [] d = 3 -> <<"a3", " ", "b3", " ", "c3", " ", "d3", " ", "e3">>
      [] d = 4 -> <<"a4">>
      [] OTHER -> <<"a", DigitChar(d % 10), " ", "b", DigitChar(d % 10)>>

DocResponse(d) == <<"answer", " ", DigitChar(d % 10)>>

DocCustomer(d) == PayloadCustomer(d)

(***************************************************************************)
(* generate_prompt.py: convert_prompt_to_claude                            *)
(***************************************************************************)
\* system_message: the content of the first system message, else ""
SystemMessage(prompt) ==
    IF FirstSystemContent(prompt) = NULL THEN <<>> ELSE FirstSystemContent(prompt)[1]

\* the second loop: system messages are skipped, assistant messages copied,
\* and the first user message gets the system message in front of its text
\* when nothing was appended before it
RECURSIVE ConvertFrom(_, _, _, _)
ConvertFrom(prompt, i, system_message, claude_messages) ==
    IF i > Len(prompt) THEN claude_messages
    ELSE LET msg == prompt[i]
         IN  IF msg.role = "assistant"
             THEN ConvertFrom(prompt, i + 1, system_message,
                       Append(claude_messages,
                              [role |-> "assistant", content |-> msg.content]))
             ELSE IF msg.role = "user"
             THEN IF system_message # <<>> /\ claude_messages = <<>>
                  THEN ConvertFrom(prompt, i + 1, system_message,
                            Append(claude_messages,
                                   [role |-> "user",
                                    content |-> system_message \o <<"\n\nHuman: ">>
                                                \o msg.content]))
                  ELSE ConvertFrom(prompt, i + 1, system_message,
                            Append(claude_messages,
                                   [role |-> "user", content |-> msg.content]))
             ELSE ConvertFrom(prompt, i + 1, system_message, claude_messages)

ConvertPromptToClaude(prompt) == ConvertFrom(prompt, 1, SystemMessage(prompt), <<>>)

(***************************************************************************)
(* call_llm.py: get_llm_responses, the MOA path                            *)
(***************************************************************************)
\* The characters of the requirement texts.
ReqChars(t) == IF t = 0 THEN <<"q", "0">> ELSE <<"q", "1">>

\* Python truthiness of a response: None and "" are false.
Truthy(r) == r # NULL /\ r[1] # <<>>

\* the check left out: synthesis is attempted whatever came back
AnyResponseUnchecked(o, d, c) == TRUE

\* if any([openai_response, deepseek_response, claude_response])
AnyResponse(o, d, c) == Truthy(o) \/ Truthy(d) \/ Truthy(c)

\* each response cut to its first character before it is labelled
ResponsesToSynthesizeCut(o, d, c) ==
    (IF Truthy(o) THEN << <<"OpenAI Response:\n">> \o SubSeq(o[1], 1, 1) >> ELSE <<>>)
    \o (IF Truthy(d) THEN << <<"Deepseek Response:\n">> \o SubSeq(d[1], 1, 1) >> ELSE <<>>)
    \o (IF Truthy(c) THEN << <<"Claude Response:\n">> \o SubSeq(c[1], 1, 1) >> ELSE <<>>)

\* responses_to_synthesize: one labelled text per truthy response
ResponsesToSynthesize(o, d, c) ==
    (IF Truthy(o) THEN << <<"OpenAI Response:\n">> \o o[1] >> ELSE <<>>)
    \o (IF Truthy(d) THEN << <<"Deepseek Response:\n">> \o d[1] >> ELSE <<>>)
    \o (IF Truthy(c) THEN << <<"Claude Response:\n">> \o c[1] >> ELSE <<>>)

\* "\n\n".join(parts)
RECURSIVE JoinBlank(_)
JoinBlank(parts) ==
    IF parts = <<>> THEN <<>>
    ELSE IF Len(parts) = 1 THEN parts[1]
    ELSE parts[1] \o <<"\n\n">> \o JoinBlank(Tail(parts))

\* create_synthesized_response_prompt(requirement, responses): the fixed text
\* of each message is kept as one piece per f-string segment.
CreateSynthesizedResponsePrompt(requirement, responses) ==
    << [role |-> "system",
        content |-> <<"You are a senior RFP specialist ... addresses the requirement: ">>
                    \o requirement
                    \o <<"\n\nEVALUATION CRITERIA: ... tailored to the requirement.">>],
       [role |-> "user",
        content |-> <<"REQUIREMENT TO ADDRESS:\n">>
                    \o requirement
                    \o <<"\n\nSOURCE RESPONSES TO SYNTHESIZE:\n">>
                    \o responses
                    \o <<"\n\nSYNTHESIS PROCESS: ... addresses the requirement.">>],
       [role |-> "user",
        content |-> <<"FINAL CHECKS: ... revise the response accordingly.">>] >>

\* the fallback taking the last provider's response first
FallbackResponseReversed(o, d, c) == IF Truthy(c) THEN c ELSE IF Truthy(d) THEN d ELSE o

\* final_response = openai_response or deepseek_response or claude_response
FallbackResponse(o, d, c) == IF Truthy(o) THEN o ELSE IF Truthy(d) THEN d ELSE c

\* a loop that stops at the first model whose call raised
NextModelIndexAbort(idx, raised) == IF raised THEN Len(Providers) + 1 ELSE idx + 1

\* the for loop over `models`: the next model is tried whether or not the
\* call raised
NextModelIndex(idx, raised) == idx + 1

\* similar_results built from matches_result['similar_matches']
SimilarResults(result) ==
    IF ~result.raised /\ result.success /\ result.similar_matches # <<>>
    THEN [k \in 1..Len(result.similar_matches) |->
             [id |-> result.similar_matches[k].id,
              requirement |-> result.similar_matches[k].id,
              response |-> result.similar_matches[k].id,
              customer |-> PayloadCustomer(result.similar_matches[k].id),
              similarity_score |-> result.similar_matches[k].similarity_score,
              len |-> 6]]
    ELSE <<>>

\* similar_results built from the stored snapshot when the search is
\* skipped: lists of five items, without a customer
ExistingSimilarResults(similar_questions_list) ==
    [k \in 1..Len(similar_questions_list) |->
        [id |-> k - 1,
         requirement |-> similar_questions_list[k].question,
         response |-> similar_questions_list[k].response,
         customer |-> <<>>,
         similarity_score |-> similar_questions_list[k].similarity_score,
         len |-> 5]]

\* customer_name: result[4] of the new format, "" of the old format
CustomerName(result) == IF result.len >= 6 THEN result.customer ELSE <<>>

\* str(similar_questions_list): the reference is "Response #<idx>"
SimilarQuestionsList(rs) ==
    [format |-> "repr",
     items |-> [k \in 1..Len(rs) |->
                  [question |-> rs[k].requirement, response |-> rs[k].response,
                   reference |-> <<"Response #", k>>,
                   customer |-> CustomerName(rs[k]),
                   similarity_score |-> rs[k].similarity_score]]]

NoResponses == [m \in {"openai", "deepseek", "anthropic"} |-> NULL]

\* the category column of the row that holds requirement text t
CategoryOf(t) == IF t = 0 THEN "None" ELSE "Security"

\* the requirement text of corpus row id: rows 0 and 1 hold the texts of the
\* requirements, the others the texts of earlier answers
RowRequirement(id) == IF id \in ReqTexts THEN ReqChars(id) ELSE DocRequirement(id)

\* float(similarity) in thousandths, rounded down
ScorePm(similarity) ==
    LET n2 == (1000 * similarity.num) * (1000 * similarity.num)
    IN  CHOOSE p \in 0..1000 :
            /\ p * p * similarity.den2 <= n2
            /\ (p + 1) * (p + 1) * similarity.den2 > n2

\* previous_responses: one dict per similar result
PreviousResponsesOf(rs) ==
    [k \in 1..Len(rs) |->
        [requirement |-> RowRequirement(rs[k].requirement),
         response |-> DocResponse(rs[k].response),
         customer |-> CustomerName(rs[k]),
         similarity_score |-> FloatScore(ScorePm(rs[k].similarity_score))]]

\* the values of the model argument
Models == {"moa", "openai", "deepseek", "anthropic", "claude"}

GlIdle == [pc |-> "idle", req_id |-> None, model |-> None, requirement |-> NULL,
           similar_results |-> <<>>, previous_responses |-> <<>>,
           openai_prompt |-> <<>>, claude_prompt |-> <<>>, prompt |-> <<>>,
           idx |-> 1, model_responses |-> NoResponses,
           synthesis_prompt |-> <<>>, final_response |-> NULL, response |-> NULL,
           raised |-> FALSE, events |-> <<>>, row_at_start |-> NULL,
           returned |-> NULL,
           skip_similarity_search |-> FALSE, skip_argument |-> FALSE]

\* One entry of the run's history: the call made, the request sent, what the
\* provider did with it and what prompt_gpt handed back.
Event(kind, model_name, request, outcome, result) ==
    [kind |-> kind, model |-> model_name, request |-> request,
     outcome |-> outcome, result |-> result]

NoResult == [raised |-> FALSE, value |-> NULL]
NoOutcome == Content(<<>>)
NoRequest == [api |-> "UPDATE", system |-> NULL, messages |-> <<>>]

\* the value of a Python call that ends without a return statement
PyNone == [type |-> "NoneType"]

\* get_llm_responses has no return statement: a run that reaches the end of
\* the try block hands None to its caller
GlReturn == Some(PyNone)

\* an exception leaves get_llm_responses (except Exception ... raise)
GlRaise == [gl EXCEPT !.pc = "done", !.raised = TRUE]

GL_Call(rid, model) ==
    /\ gl.pc = "idle"
    /\ fm.pc = "idle"
    /\ gl' = [GlIdle EXCEPT !.pc = "lookup", !.req_id = rid, !.model = model]
    /\ UNCHANGED <<moa, parked, pf, env, embeddings, table, embed_of, fm, fm_result, fm_writes>>

\* get_llm_responses(requirement_id, model, skip_similarity_search=True)
GL_CallSkip(rid, model) ==
    /\ gl.pc = "idle"
    /\ fm.pc = "idle"
    /\ gl' = [GlIdle EXCEPT !.pc = "lookup", !.req_id = rid, !.model = model,
                            !.skip_similarity_search = TRUE, !.skip_argument = TRUE]
    /\ UNCHANGED <<moa, parked, pf, env, embeddings, table, embed_of, fm, fm_result, fm_writes>>

\* engine.connect() and the SELECT of the requirement row
GL_Lookup(storeError) ==
    /\ gl.pc = "lookup"
    /\ IF storeError \/ gl.req_id \notin DOMAIN table
       THEN gl' = GlRaise
       ELSE gl' = [gl EXCEPT !.pc = IF gl.skip_similarity_search
                                   THEN "existing" ELSE "search",
                             !.requirement = Some(table[gl.req_id].requirement),
                             !.row_at_start = Some(table[gl.req_id])]
    /\ UNCHANGED <<moa, parked, pf, env, embeddings, table, embed_of, fm, fm_result, fm_writes>>

\* the formatting of previous_responses and the prompts: for 'moa' the
\* standard prompt and its Claude form, for a single model the one its
\* provider takes
WithPrompts(run, similar_results) ==
    LET previous_responses == PreviousResponsesOf(similar_results)
        rfp_prompt == CreateRfpPrompt(ReqChars(run.requirement[1]),
                                      CategoryOf(run.requirement[1]),
                                      Some(previous_responses)).value
    IN  [run EXCEPT
           !.pc = IF run.model = "moa" THEN "fanout" ELSE "single",
           !.idx = 1,
           !.similar_results = similar_results,
           !.previous_responses = previous_responses,
           !.openai_prompt = IF run.model = "moa" THEN rfp_prompt ELSE <<>>,
           !.claude_prompt = IF run.model = "moa"
                             THEN ConvertPromptToClaude(rfp_prompt) ELSE <<>>,
           !.prompt = IF run.model = "moa" THEN <<>>
                      ELSE IF NormalizedName(run.model) = "anthropic"
                      THEN ConvertPromptToClaude(rfp_prompt)
                      ELSE rfp_prompt]

\* skip_similarity_search is set: the SELECT of similar_questions.  A stored
\* text is parsed with ast.literal_eval and converted, and the prompts are
\* built from it; with no stored text, or when the SELECT fails, the flag
\* is cleared and the search is performed.
GL_Existing(storeError) ==
    /\ gl.pc = "existing"
    /\ LET existing_similar == table[gl.req_id].similar_questions
       IN  IF storeError \/ existing_similar = NULL
           THEN gl' = [gl EXCEPT !.pc = "search", !.skip_similarity_search = FALSE]
           ELSE gl' = WithPrompts(gl, ExistingSimilarResults(existing_similar[1].items))
    /\ UNCHANGED <<moa, parked, pf, env, embeddings, table, embed_of, fm, fm_result, fm_writes>>

\* matches_result = find_similar_matches(requirement_id)
GL_Search ==
    /\ gl.pc = "search"
    /\ FmStart(gl.req_id)
    /\ gl' = [gl EXCEPT !.pc = "searching"]

\* find_similar_matches has returned: build similar_results and
\* previous_responses, then the prompts: for 'moa' the standard prompt and
\* its Claude form, for a single model the one its provider takes
GL_SearchDone ==
    /\ gl.pc = "searching"
    /\ fm.pc = "done"
    /\ gl' = WithPrompts(gl, SimilarResults(fm_result))
    /\ fm' = FmIdle
    /\ UNCHANGED <<moa, parked, pf, env, embeddings, table, embed_of, fm_result, fm_writes>>

\* models: each provider with the prompt it is given
ModelPrompt(model_name) ==
    IF model_name = "anthropic" THEN gl.claude_prompt ELSE gl.openai_prompt

\* one turn of the loop: model_responses[model_name] = prompt_gpt(...) or None
GL_Provider(outcome) ==
    /\ gl.pc = "fanout"
    /\ gl.idx <= Len(Providers)
    /\ LET model_name == Providers[gl.idx]
           r == PromptGpt(model_name, outcome)
           next == NextModelIndex(gl.idx, r.raised)
       IN  gl' = [gl EXCEPT
                    !.model_responses[model_name] =
                        IF r.raised THEN NULL ELSE r.value,
                    !.events = Append(@, Event("generation", model_name,
                                               Request(model_name, ModelPrompt(model_name)),
                                               outcome, r)),
                    !.idx = next,
                    !.pc = IF next > Len(Providers) THEN "evaluate" ELSE "fanout"]
    /\ UNCHANGED <<moa, parked, pf, env, embeddings, table, embed_of, fm, fm_result, fm_writes>>

\* if any([...]): build the synthesis prompt; else raise ValueError
GL_Evaluate ==
    /\ gl.pc = "evaluate"
    /\ LET o == gl.model_responses["openai"]
           d == gl.model_responses["deepseek"]
           c == gl.model_responses["anthropic"]
       IN  IF AnyResponse(o, d, c)
           THEN gl' = [gl EXCEPT
                         !.pc = "synthesize",
                         !.synthesis_prompt =
                             CreateSynthesizedResponsePrompt(
                                 ReqChars(gl.requirement[1]),
                                 JoinBlank(ResponsesToSynthesize(o, d, c)))]
           ELSE gl' = GlRaise
    /\ UNCHANGED <<moa, parked, pf, env, embeddings, table, embed_of, fm, fm_result, fm_writes>>

\* final_response = prompt_gpt(synthesis_prompt, 'openai'), or the fallback
GL_Synthesize(outcome) ==
    /\ gl.pc = "synthesize"
    /\ LET r == PromptGpt("openai", outcome)
       IN  gl' = [gl EXCEPT
                    !.pc = "save",
                    !.events = Append(@, Event("synthesis", "openai",
                                               Request("openai", gl.synthesis_prompt),
                                               outcome, r)),
                    !.final_response =
                        IF r.raised
                        THEN FallbackResponse(gl.model_responses["openai"],
                                              gl.model_responses["deepseek"],
                                              gl.model_responses["anthropic"])
                        ELSE r.value]
    /\ UNCHANGED <<moa, parked, pf, env, embeddings, table, embed_of, fm, fm_result, fm_writes>>

\* an UPDATE that adds the new final_response to the one already stored
MoaSavedRowAppending(row) ==
    [row EXCEPT !.openai_response = gl.model_responses["openai"],
                !.deepseek_response = gl.model_responses["deepseek"],
                !.anthropic_response = gl.model_responses["anthropic"],
                !.final_response =
                    Some((IF @ = NULL THEN <<>> ELSE @[1]) \o gl.final_response[1]),
                !.similar_questions = Some(SimilarQuestionsList(gl.similar_results)),
                !.model_provider = Some(gl.model)]

\* the row after the UPDATE of the MOA path: every response column, the
\* snapshot and the provider are set from this run
MoaSavedRow(row) ==
    [row EXCEPT !.openai_response = gl.model_responses["openai"],
                !.deepseek_response = gl.model_responses["deepseek"],
                !.anthropic_response = gl.model_responses["anthropic"],
                !.final_response = gl.final_response,
                !.similar_questions = Some(SimilarQuestionsList(gl.similar_results)),
                !.model_provider = Some(gl.model)]

\* UPDATE excel_requirement_responses SET ...; commit.  A failing execute or
\* commit raises out of the function and nothing is stored.
GL_Save(storeError) ==
    /\ gl.pc = "save"
    /\ IF storeError
       THEN /\ gl' = GlRaise
            /\ UNCHANGED table
       ELSE /\ table' = [table EXCEPT ![gl.req_id] = MoaSavedRow(@)]
            /\ gl' = [gl EXCEPT !.pc = "done",
                                !.returned = GlReturn,
                                !.events = Append(@, Event("save", "moa", NoRequest,
                                                           NoOutcome, NoResult))]
    /\ UNCHANGED <<moa, parked, pf, env, embeddings, embed_of, fm, fm_result, fm_writes>>

(***************************************************************************)
(* call_llm.py: get_llm_responses, a single model                          *)
(***************************************************************************)
\* response = prompt_gpt(prompt, model); an exception is raised again as
\* ValueError
GL_Single(outcome) ==
    /\ gl.pc = "single"
    /\ LET r == PromptGpt(NormalizedName(gl.model), outcome)
           called == [gl EXCEPT
                        !.events = Append(@, Event("single", NormalizedName(gl.model),
                                                   Request(gl.model, gl.prompt),
                                                   outcome, r))]
       IN  IF r.raised
           THEN gl' = [called EXCEPT !.pc = "done", !.raised = TRUE]
           ELSE gl' = [called EXCEPT !.pc = "save_single", !.response = r.value]
    /\ UNCHANGED <<moa, parked, pf, env, embeddings, table, embed_of, fm, fm_result, fm_writes>>

\* an UPDATE of a single model that leaves the model's own column as it is
SingleSavedRowFinalOnly(row) ==
    [row EXCEPT !.final_response = gl.response,
                !.similar_questions = Some(SimilarQuestionsList(gl.similar_results)),
                !.model_provider = Some(NormalizedName(gl.model))]

\* the row after the UPDATE of a single model: the CASE expressions keep the
\* columns of the other providers
SingleSavedRow(row) ==
    LET normalized_model == NormalizedName(gl.model)
    IN  [row EXCEPT ![normalized_model \o "_response"] = gl.response,
                    !.final_response = gl.response,
                    !.similar_questions = Some(SimilarQuestionsList(gl.similar_results)),
                    !.model_provider = Some(normalized_model)]

GL_SaveSingle(storeError) ==
    /\ gl.pc = "save_single"
    /\ IF storeError
       THEN /\ gl' = GlRaise
            /\ UNCHANGED table
       ELSE /\ table' = [table EXCEPT ![gl.req_id] = SingleSavedRow(@)]
            /\ gl' = [gl EXCEPT !.pc = "done",
                                !.returned = GlReturn,
                                !.events = Append(@, Event("save_single",
                                                           NormalizedName(gl.model),
                                                           NoRequest, NoOutcome, NoResult))]
    /\ UNCHANGED <<moa, parked, pf, env, embeddings, embed_of, fm, fm_result, fm_writes>>

(***************************************************************************)
(* server/moa_sequential.py: create_synthesis_prompt                       *)
(***************************************************************************)
\* model_name.upper()
Upper(model_name) ==
    CASE model_name = "openai" -> "OPENAI"
      [] model_name = "deepseek" -> "DEEPSEEK"
      [] model_name = "anthropic" -> "ANTHROPIC"

\* the loop over model_responses.items(): the response of every result whose
\* status is "success" is appended under its heading
RECURSIVE SuccessfulResponsesText(_)
SuccessfulResponsesText(results) ==
    IF results = <<>> THEN <<>>
    ELSE (IF Head(results).status = "success"
          THEN <<"\nRESPONSE FROM ", Upper(Head(results).model), ":\n">>
                   \o Head(results).response \o <<"\n">>
          ELSE <<>>)
         \o SuccessfulResponsesText(Tail(results))

\* create_synthesis_prompt(requirement, model_responses); model_responses is
\* given as the sequence of its items, in insertion order
CreateSynthesisPrompt(requirement, results) ==
    << [role |-> "system",
        content |-> <<"You are an expert AI Synthesizer ... persuasiveness and clarity.">>],
       [role |-> "user",
        content |-> <<"I need you to synthesize ... the following requirement:\n\nREQUIREMENT: ">>
                    \o requirement \o <<"\n\n">>
                    \o SuccessfulResponsesText(results)
                    \o <<"\nCreate a single synthesized response ... professional RFP response.">>] >>

(***************************************************************************)
(* server/moa_final.py, server/moa_integration.py: what the imported       *)
(* prompt_gpt(prompt, llm=model_name) does with one call: it returns a     *)
(* text, which may be an "Error: ..." text, or it raises with a message    *)
(***************************************************************************)
Returns(text) == [raises |-> FALSE, text |-> text]
RaisesWith(message) == [raises |-> TRUE, text |-> message]

\* response.startswith("Error:")
StartsWithError(text) == text # <<>> /\ Head(text) = "Error:"

\* a result dictionary of get_model_response
SuccessDict(response) == [status |-> "success", response |-> Some(response), error |-> NULL]
ErrorDict(error) == [status |-> "error", response |-> NULL, error |-> Some(error)]

\* model_responses.get(key, {}) of a key that was never assigned
MissingDict == [status |-> "missing", response |-> NULL, error |-> NULL]

\* d.get("response", default)
GetResponse(d, default) == IF d.response = NULL THEN default ELSE d.response[1]

\* d.get("error", default)
GetError(d, default) == IF d.error = NULL THEN default ELSE d.error[1]

(***************************************************************************)
(* server/moa_final.py: get_model_response and generate_moa_response       *)
(***************************************************************************)
\* get_model_response(prompt, model_name): an "Error:" text and an exception
\* give status error, any other text status success
FinalGetModelResponse(outcome) ==
    IF outcome.raises THEN ErrorDict(outcome.text)
    ELSE IF StartsWithError(outcome.text) THEN ErrorDict(outcome.text)
    ELSE SuccessDict(outcome.text)

\* models_to_try, by the key model.lower() under which the result is kept
ModelsToTry == <<"openai", "anthropic", "deepseek">>

NoModelResponses == [m \in {"openai", "anthropic", "deepseek"} |-> MissingDict]

\* the test that decides between the error result and phase 2
PrimaryModelsFailed(model_responses) ==
    /\ ~(model_responses["openai"].status = "success")
    /\ ~(model_responses["anthropic"].status = "success")

\* the fallback when the synthesis call fails
FinalFallback(model_responses) ==
    IF model_responses["openai"].status = "success"
    THEN model_responses["openai"].response[1]
    ELSE IF model_responses["anthropic"].status = "success"
    THEN model_responses["anthropic"].response[1]
    ELSE <<"Failed to generate a response.">>

\* sum(1 for m in model_responses.values() if m.get("status") == "success")
ModelsSucceeded(model_responses) ==
    Cardinality({m \in DOMAIN model_responses : model_responses[m].status = "success"})

\* the two return values of generate_moa_response
FinalErrorResult(model_responses) ==
    [status |-> "error", message |-> Some("Failed to get responses from primary models"),
     final_response |-> NULL,
     model_responses |-> [m \in DOMAIN model_responses |->
                            GetError(model_responses[m], <<>>)],
     models_succeeded |-> 0, models_attempted |-> 0]

FinalSuccessResult(final_response, model_responses) ==
    [status |-> "success", message |-> NULL,
     final_response |-> Some(final_response),
     model_responses |-> [m \in DOMAIN model_responses |->
                            GetResponse(model_responses[m], <<>>)],
     models_succeeded |-> ModelsSucceeded(model_responses),
     models_attempted |-> Len(ModelsToTry)]

\* generate_moa_response is entered
MF_Call ==
    /\ moa.pc = "idle"
    /\ moa' = [pc |-> "phase1", idx |-> 1, model_responses |-> NoModelResponses,
               synthesis_result |-> MissingDict, result |-> NULL]
    /\ UNCHANGED <<parked, pf, env, embeddings, table, embed_of, fm, fm_result, fm_writes, gl>>

\* one turn of  for model in models_to_try
MF_Provider(outcome) ==
    /\ moa.pc = "phase1"
    /\ moa' = [moa EXCEPT
                 !.model_responses[ModelsToTry[moa.idx]] = FinalGetModelResponse(outcome),
                 !.idx = @ + 1,
                 !.pc = IF moa.idx = Len(ModelsToTry) THEN "check" ELSE "phase1"]
    /\ UNCHANGED <<parked, pf, env, embeddings, table, embed_of, fm, fm_result, fm_writes, gl>>

\* the check of the primary models: return the error result or go on
MF_Check ==
    /\ moa.pc = "check"
    /\ IF PrimaryModelsFailed(moa.model_responses)
       THEN moa' = [moa EXCEPT !.pc = "done",
                               !.result = Some(FinalErrorResult(moa.model_responses))]
       ELSE moa' = [moa EXCEPT !.pc = "phase2"]
    /\ UNCHANGED <<parked, pf, env, embeddings, table, embed_of, fm, fm_result, fm_writes, gl>>

\* phase 2: the synthesis call, the fallback and the return
MF_Synthesize(outcome) ==
    /\ moa.pc = "phase2"
    /\ LET synthesis_result == FinalGetModelResponse(outcome)
           final_response == IF synthesis_result.status = "success"
                             THEN synthesis_result.response[1]
                             ELSE FinalFallback(moa.model_responses)
       IN  moa' = [moa EXCEPT
                     !.pc = "done",
                     !.synthesis_result = synthesis_result,
                     !.result = Some(FinalSuccessResult(final_response,
                                                        moa.model_responses))]
    /\ UNCHANGED <<parked, pf, env, embeddings, table, embed_of, fm, fm_result, fm_writes, gl>>

(***************************************************************************)
(* server/moa_integration.py: get_model_response                           *)
(***************************************************************************)
\* str.lower(), piece by piece
LowerPiece(piece) ==
    CASE piece = "Timeout" -> "timeout"
      [] piece = "Error:" -> "error:"
      [] OTHER -> piece

\* "timeout" in text.lower()
MentionsTimeout(text) == \E i \in DOMAIN text : LowerPiece(text[i]) = "timeout"

\* the call failed: prompt_gpt raised or returned an "Error:" text
Failed(outcome) == outcome.raises \/ StartsWithError(outcome.text)

\* a retry test that does not look for a timeout
RetriesAnyFailure(attempts, max_retries, outcome) ==
    Failed(outcome) /\ attempts <= max_retries

\* if "timeout" in response.lower() and attempts <= max_retries: continue
\* (the same test on str(e) in the except clause)
Retries(attempts, max_retries, outcome) ==
    Failed(outcome) /\ MentionsTimeout(outcome.text) /\ attempts <= max_retries

\* what one call that is not retried returns
AttemptResult(outcome) ==
    IF Failed(outcome) THEN ErrorDict(outcome.text) ELSE SuccessDict(outcome.text)

\* the return after the while loop
RetriesExceeded == ErrorDict(<<"Maximum retry attempts exceeded">>)

\* get_model_response is entered with max_retries
GM_Call(max_retries) ==
    /\ moa.pc = "idle"
    /\ moa' = [pc |-> "loop", max_retries |-> max_retries, attempts |-> 0,
               calls |-> <<>>, result |-> NULL]
    /\ UNCHANGED <<parked, pf, env, embeddings, table, embed_of, fm, fm_result, fm_writes, gl>>

\* one turn of  while attempts <= max_retries: the call of prompt_gpt and
\* the decision to retry or to return
GM_Attempt(outcome) ==
    /\ moa.pc = "loop"
    /\ moa.attempts <= moa.max_retries
    /\ LET attempts == moa.attempts + 1
       IN  moa' = [moa EXCEPT
                     !.attempts = attempts,
                     !.calls = Append(@, outcome),
                     !.pc = IF Retries(attempts, moa.max_retries, outcome)
                            THEN "loop" ELSE "done",
                     !.result = IF Retries(attempts, moa.max_retries, outcome)
                                THEN NULL ELSE Some(AttemptResult(outcome))]
    /\ UNCHANGED <<parked, pf, env, embeddings, table, embed_of, fm, fm_result, fm_writes, gl>>

\* the loop test fails: the return after the loop
GM_LoopExit ==
    /\ moa.pc = "loop"
    /\ ~(moa.attempts <= moa.max_retries)
    /\ moa' = [moa EXCEPT !.pc = "done", !.result = Some(RetriesExceeded)]
    /\ UNCHANGED <<parked, pf, env, embeddings, table, embed_of, fm, fm_result, fm_writes, gl>>

\* get_model_response as a function of what the successive calls of
\* prompt_gpt do: outcomes[k] is the outcome of the k-th call
RECURSIVE GetModelResponseFrom(_, _, _)
GetModelResponseFrom(attempts, max_retries, outcomes) ==
    IF attempts <= max_retries /\ outcomes # <<>>
    THEN IF Retries(attempts + 1, max_retries, Head(outcomes))
         THEN GetModelResponseFrom(attempts + 1, max_retries, Tail(outcomes))
         ELSE AttemptResult(Head(outcomes))
    ELSE RetriesExceeded

\* get_model_response(prompt, model_name) with the default max_retries=1
DefaultMaxRetries == 1
GetModelResponse(outcomes) == GetModelResponseFrom(0, DefaultMaxRetries, outcomes)

(***************************************************************************)
(* server/moa_integration.py: generate_integrated_moa_response             *)
(***************************************************************************)
\* next(model for model, result in model_responses.items()
\*      if result.get("status") == "success"), in the order of insertion
SuccessfulModel(model_responses) ==
    IF model_responses["openai"].status = "success" THEN "openai"
    ELSE IF model_responses["anthropic"].status = "success" THEN "anthropic"
    ELSE "deepseek"

\* a fallback that takes OpenAI's entry without looking at its status
IntegratedFallbackOpenAI(model_responses) ==
    [final_response |-> model_responses["openai"].response, used_model |-> "openai"]

\* the synthesis failed: OpenAI if available, otherwise Anthropic
IntegratedFallback(model_responses) ==
    IF model_responses["openai"].status = "success"
    THEN [final_response |-> model_responses["openai"].response, used_model |-> "openai"]
    ELSE [final_response |-> model_responses["anthropic"].response,
          used_model |-> "anthropic"]

\* return {"status": "error", "message": "All models failed ...", ...}
IntegratedErrorResult(models_attempted) ==
    [status |-> "error", message |-> Some("All models failed to generate responses"),
     final_response |-> NULL, used_model |-> None,
     model_specific_responses |-> NoResponses,
     models_succeeded |-> 0, models_attempted |-> models_attempted]

\* return {"status": "success", "final_response": ..., "used_model": ..., ...}
IntegratedSuccessResult(final_response, used_model, locals) ==
    [status |-> "success", message |-> NULL,
     final_response |-> final_response, used_model |-> used_model,
     model_specific_responses |->
         [m \in DOMAIN locals.model_responses |->
             Some(GetResponse(locals.model_responses[m], <<>>))],
     models_succeeded |-> locals.models_succeeded,
     models_attempted |-> locals.models_attempted]

\* model_responses[key] = result; models_attempted and models_succeeded counted
Attempted(locals, key, result) ==
    [locals EXCEPT !.model_responses[key] = result,
                   !.models_attempted = @ + 1,
                   !.models_succeeded = IF result.status = "success" THEN @ + 1 ELSE @]

GI_Call ==
    /\ moa.pc = "idle"
    /\ moa' = [pc |-> "openai", model_responses |-> NoModelResponses,
               models_attempted |-> 0, models_succeeded |-> 0,
               elapsed_under_60 |-> TRUE,
               synthesis_result |-> MissingDict, result |-> NULL]
    /\ UNCHANGED <<parked, pf, env, embeddings, table, embed_of, fm, fm_result, fm_writes, gl>>

\* Step 1: always try OpenAI
GI_OpenAI(outcomes) ==
    /\ moa.pc = "openai"
    /\ moa' = [Attempted(moa, "openai", GetModelResponse(outcomes))
                  EXCEPT !.pc = "anthropic"]
    /\ UNCHANGED <<parked, pf, env, embeddings, table, embed_of, fm, fm_result, fm_writes, gl>>

\* Step 2: always try Anthropic
GI_Anthropic(outcomes) ==
    /\ moa.pc = "anthropic"
    /\ moa' = [Attempted(moa, "anthropic", GetModelResponse(outcomes))
                  EXCEPT !.pc = "deepseek"]
    /\ UNCHANGED <<parked, pf, env, embeddings, table, embed_of, fm, fm_result, fm_writes, gl>>

\* Step 3: DeepSeek is tried when under 60 seconds have passed and at least
\* one other model worked
GI_DeepSeek(outcomes) ==
    /\ moa.pc = "deepseek"
    /\ moa.models_succeeded > 0
    /\ moa' = [Attempted(moa, "deepseek", GetModelResponse(outcomes))
                  EXCEPT !.pc = "final", !.elapsed_under_60 = TRUE]
    /\ UNCHANGED <<parked, pf, env, embeddings, table, embed_of, fm, fm_result, fm_writes, gl>>

\* Step 3, the else branch: "Skipping DeepSeek due to time constraints or
\* previous model failures"
GI_SkipDeepSeek(elapsed_under_60) ==
    /\ moa.pc = "deepseek"
    /\ ~(elapsed_under_60 /\ moa.models_succeeded > 0)
    /\ moa' = [moa EXCEPT !.pc = "final", !.elapsed_under_60 = elapsed_under_60]
    /\ UNCHANGED <<parked, pf, env, embeddings, table, embed_of, fm, fm_result, fm_writes, gl>>

\* Step 4, models_succeeded == 0
GI_ReturnError ==
    /\ moa.pc = "final"
    /\ moa.models_succeeded = 0
    /\ moa' = [moa EXCEPT !.pc = "done",
                          !.result = Some(IntegratedErrorResult(moa.models_attempted))]
    /\ UNCHANGED <<parked, pf, env, embeddings, table, embed_of, fm, fm_result, fm_writes, gl>>

\* Step 4, models_succeeded == 1: the response of the one successful model
GI_ReturnSingle ==
    /\ moa.pc = "final"
    /\ moa.models_succeeded = 1
    /\ LET successful_model == SuccessfulModel(moa.model_responses)
       IN  moa' = [moa EXCEPT
                     !.pc = "done",
                     !.result = Some(IntegratedSuccessResult(
                                        moa.model_responses[successful_model].response,
                                        successful_model, moa))]
    /\ UNCHANGED <<parked, pf, env, embeddings, table, embed_of, fm, fm_result, fm_writes, gl>>

\* Step 4, several models succeeded: the synthesis call, and the fallback
GI_Synthesize(outcomes) ==
    /\ moa.pc = "final"
    /\ moa.models_succeeded > 1
    /\ LET synthesis_result == GetModelResponse(outcomes)
           chosen == IF synthesis_result.status = "success"
                     THEN [final_response |-> synthesis_result.response,
                           used_model |-> "moa"]
                     ELSE IntegratedFallback(moa.model_responses)
       IN  moa' = [moa EXCEPT
                     !.pc = "done",
                     !.synthesis_result = synthesis_result,
                     !.result = Some(IntegratedSuccessResult(chosen.final_response,
                                                             chosen.used_model, moa))]
    /\ UNCHANGED <<parked, pf, env, embeddings, table, embed_of, fm, fm_result, fm_writes, gl>>

(***************************************************************************)
(* server/moa_sequential.py: run_model_with_timeout.  moa.frame is the     *)
(* running call: its position, the seconds used since the alarm was set,   *)
(* the state of the alarm and what is about to be returned or raised.      *)
(***************************************************************************)
TOTAL_TIMEOUT_SECONDS == 120
SYNTHESIS_TIMEOUT == 30

\* MODEL_TIMEOUTS[model_name]
ModelTimeout(model_name) ==
    CASE model_name = "openAI" -> 30
      [] model_name = "anthropic" -> 30
      [] model_name = "deepseek" -> 30

\* model_order, and model_name.lower()
ModelOrder == <<"openAI", "anthropic", "deepseek">>

LowerName(model_name) == IF model_name = "openAI" THEN "openai" ELSE model_name

TimeoutDict(model_name) ==
    [status |-> "timeout", response |-> NULL,
     error |-> Some(<<model_name, " timed out after ", "30", " seconds">>)]

NoFrame ==
    [pc |-> "none", model_name |-> None, purpose |-> None,
     used |-> 0, alarm |-> "none", alarm_at |-> "never",
     pending |-> MissingDict, raising |-> FALSE]

\* signal.signal(SIGALRM, timeout_handler); signal.alarm(MODEL_TIMEOUTS[model_name])
Frame(model_name, purpose) ==
    [pc |-> "armed", model_name |-> model_name, purpose |-> purpose,
     used |-> 0, alarm |-> "armed", alarm_at |-> "never",
     pending |-> MissingDict, raising |-> FALSE]

\* the result of the try block when prompt_gpt returned or raised
CallResult(outcome) ==
    IF outcome.raises THEN ErrorDict(outcome.text)
    ELSE IF StartsWithError(outcome.text) THEN ErrorDict(outcome.text)
    ELSE SuccessDict(outcome.text)

\* the try block is entered and prompt_gpt is called
RM_Enter ==
    /\ moa.pc = "running"
    /\ moa.frame.pc = "armed"
    /\ moa' = [moa EXCEPT !.frame.pc = "calling"]
    /\ UNCHANGED <<parked, pf, env, embeddings, table, embed_of, fm, fm_result, fm_writes, gl>>

\* prompt_gpt ends after `duration` more seconds: it returns (the rest of the
\* try block follows) or raises (an except clause follows).  While the alarm
\* is pending the call cannot last beyond the instant of the alarm.
RM_Response(outcome, duration) ==
    /\ moa.pc = "running"
    /\ moa.frame.pc = "calling"
    /\ LET timeout == ModelTimeout(moa.frame.model_name)
           used == moa.frame.used + duration
       IN  /\ moa.frame.alarm = "armed" => used <= timeout
           /\ moa' = [moa EXCEPT
                        !.elapsed = @ + duration,
                        !.overran = @ \/ used > timeout,
                        !.frame.used = used,
                        !.frame.pc = IF outcome.raises THEN "handling" ELSE "returned",
                        !.frame.pending = CallResult(outcome)]
    /\ UNCHANGED <<parked, pf, env, embeddings, table, embed_of, fm, fm_result, fm_writes, gl>>

\* SIGALRM is delivered and timeout_handler raises TimeoutError where the
\* program is: in prompt_gpt (where the exception propagates into the try
\* block or is handled by prompt_gpt itself, which goes on), in the rest of
\* the try block, in an except clause, or in the finally clause before
\* signal.alarm(0).  After the call the alarm is due only if the call used
\* the whole timeout.
RM_Alarm(handled_in_call) ==
    /\ moa.pc = "running"
    /\ moa.frame.alarm = "armed"
    /\ LET timeout == ModelTimeout(moa.frame.model_name)
           fired == [moa EXCEPT !.frame.alarm = "fired",
                                !.frame.alarm_at = moa.frame.pc]
       IN  CASE moa.frame.pc = "calling" ->
                  IF handled_in_call
                  THEN moa' = [fired EXCEPT
                                 !.elapsed = @ + (timeout - moa.frame.used),
                                 !.frame.used = timeout]
                  ELSE moa' = [fired EXCEPT
                                 !.elapsed = @ + (timeout - moa.frame.used),
                                 !.frame.used = timeout,
                                 !.frame.pc = "handling",
                                 !.frame.pending = TimeoutDict(moa.frame.model_name)]
              [] moa.frame.pc = "returned" ->
                  /\ moa.frame.used = timeout
                  /\ ~handled_in_call
                  /\ moa' = [fired EXCEPT
                               !.frame.pc = "handling",
                               !.frame.pending = TimeoutDict(moa.frame.model_name)]
              [] moa.frame.pc = "handling" ->
                  /\ moa.frame.used = timeout
                  /\ ~handled_in_call
                  /\ moa' = [fired EXCEPT !.frame.pc = "finally",
                                          !.frame.raising = TRUE]
              [] moa.frame.pc = "finally" ->
                  /\ moa.frame.used = timeout
                  /\ ~handled_in_call
                  /\ moa' = [fired EXCEPT !.frame.raising = TRUE]
              [] OTHER -> FALSE
    /\ UNCHANGED <<parked, pf, env, embeddings, table, embed_of, fm, fm_result, fm_writes, gl>>

\* the rest of the try block (returned) or the except clause (handling)
\* has built the dictionary to return: the finally clause is entered
RM_Return ==
    /\ moa.pc = "running"
    /\ moa.frame.pc \in {"returned", "handling"}
    /\ moa' = [moa EXCEPT !.frame.pc = "finally"]
    /\ UNCHANGED <<parked, pf, env, embeddings, table, embed_of, fm, fm_result, fm_writes, gl>>

(***************************************************************************)
(* server/moa_sequential.py: generate_moa_response_sequential              *)
(***************************************************************************)
\* a budget test that leaves out the synthesis timeout
EnoughTimeForModelOnly(time_remaining, model_name) ==
    ~(time_remaining < ModelTimeout(model_name))

\* not (time_remaining < MODEL_TIMEOUTS[model_name] + SYNTHESIS_TIMEOUT)
EnoughTime(time_remaining, model_name) ==
    ~(time_remaining < ModelTimeout(model_name) + SYNTHESIS_TIMEOUT)

\* the fallback loop over model_order after a failed synthesis
RECURSIVE SequentialFallbackFrom(_, _)
SequentialFallbackFrom(order, model_responses) ==
    IF order = <<>> THEN Some(<<"Failed to generate a response.">>)
    ELSE IF model_responses[LowerName(Head(order))].status = "success"
    THEN model_responses[LowerName(Head(order))].response
    ELSE SequentialFallbackFrom(Tail(order), model_responses)

SequentialFallback(model_responses) == SequentialFallbackFrom(ModelOrder, model_responses)

SequentialErrorResult(locals) ==
    [status |-> "error", message |-> Some("All models failed to generate responses"),
     final_response |-> NULL, total_time |-> locals.elapsed,
     models_succeeded |-> locals.models_succeeded,
     models_attempted |-> locals.models_attempted]

SequentialSuccessResult(final_response, locals) ==
    [status |-> "success", message |-> NULL,
     final_response |-> final_response, total_time |-> locals.elapsed,
     models_succeeded |-> locals.models_succeeded,
     models_attempted |-> locals.models_attempted]

SQ_Call ==
    /\ moa.pc = "idle"
    /\ moa' = [pc |-> "loop", idx |-> 1, elapsed |-> 0, overran |-> FALSE,
               model_responses |-> NoModelResponses,
               models_attempted |-> 0, models_succeeded |-> 0,
               skipped |-> {}, budgets |-> <<>>, frame |-> NoFrame,
               synthesis_result |-> MissingDict, result |-> NULL, raised |-> FALSE]
    /\ UNCHANGED <<parked, pf, env, embeddings, table, embed_of, fm, fm_result, fm_writes, gl>>

\* the budget test fails: continue with the next model
SQ_Skip ==
    /\ moa.pc = "loop"
    /\ moa.idx <= Len(ModelOrder)
    /\ ~EnoughTime(TOTAL_TIMEOUT_SECONDS - moa.elapsed, ModelOrder[moa.idx])
    /\ moa' = [moa EXCEPT !.idx = @ + 1,
                          !.skipped = @ \cup {LowerName(ModelOrder[moa.idx])}]
    /\ UNCHANGED <<parked, pf, env, embeddings, table, embed_of, fm, fm_result, fm_writes, gl>>

\* the budget test passes: models_attempted += 1 and run_model_with_timeout
\* is entered
SQ_Attempt ==
    /\ moa.pc = "loop"
    /\ moa.idx <= Len(ModelOrder)
    /\ EnoughTime(TOTAL_TIMEOUT_SECONDS - moa.elapsed, ModelOrder[moa.idx])
    /\ moa' = [moa EXCEPT
                 !.pc = "running",
                 !.models_attempted = @ + 1,
                 !.budgets = Append(@, [model |-> ModelOrder[moa.idx],
                                        time_remaining |->
                                            TOTAL_TIMEOUT_SECONDS - moa.elapsed]),
                 !.frame = Frame(ModelOrder[moa.idx], "model")]
    /\ UNCHANGED <<parked, pf, env, embeddings, table, embed_of, fm, fm_result, fm_writes, gl>>

\* the finally clause: signal.alarm(0), the handler restored; then the
\* dictionary is returned to generate_moa_response_sequential, which stores
\* it (or takes it as the synthesis result and returns), or the TimeoutError
\* raised in an except clause or in the finally clause leaves both functions
RM_Finally ==
    /\ moa.pc = "running"
    /\ moa.frame.pc = "finally"
    /\ LET result == moa.frame.pending
           cancelled == [moa EXCEPT !.frame.pc = "none",
                                    !.frame.alarm = IF @ = "armed" THEN "cancelled" ELSE @]
       IN  IF moa.frame.raising
           THEN moa' = [cancelled EXCEPT !.pc = "done", !.raised = TRUE]
           ELSE IF moa.frame.purpose = "model"
           THEN moa' = [cancelled EXCEPT
                          !.pc = "loop",
                          !.idx = @ + 1,
                          !.model_responses[LowerName(moa.frame.model_name)] = result,
                          !.models_succeeded =
                              IF result.status = "success" THEN @ + 1 ELSE @]
           ELSE moa' = [cancelled EXCEPT
                          !.pc = "done",
                          !.synthesis_result = result,
                          !.result = Some(SequentialSuccessResult(
                                             IF result.status = "success"
                                             THEN result.response
                                             ELSE SequentialFallback(moa.model_responses),
                                             moa))]
    /\ UNCHANGED <<parked, pf, env, embeddings, table, embed_of, fm, fm_result, fm_writes, gl>>

\* models_succeeded == 0 after the loop
SQ_ReturnError ==
    /\ moa.pc = "loop"
    /\ moa.idx > Len(ModelOrder)
    /\ moa.models_succeeded = 0
    /\ moa' = [moa EXCEPT !.pc = "done", !.result = Some(SequentialErrorResult(moa))]
    /\ UNCHANGED <<parked, pf, env, embeddings, table, embed_of, fm, fm_result, fm_writes, gl>>

\* models_succeeded == 1: the one response is used directly
SQ_ReturnSingle ==
    /\ moa.pc = "loop"
    /\ moa.idx > Len(ModelOrder)
    /\ moa.models_succeeded = 1
    /\ LET successful_model == SuccessfulModel(moa.model_responses)
       IN  moa' = [moa EXCEPT
                     !.pc = "done",
                     !.result = Some(SequentialSuccessResult(
                                        moa.model_responses[successful_model].response,
                                        moa))]
    /\ UNCHANGED <<parked, pf, env, embeddings, table, embed_of, fm, fm_result, fm_writes, gl>>

\* several responses: run_model_with_timeout(synthesis_prompt, "openAI")
SQ_Synthesize ==
    /\ moa.pc = "loop"
    /\ moa.idx > Len(ModelOrder)
    /\ moa.models_succeeded > 1
    /\ moa' = [moa EXCEPT !.pc = "running", !.frame = Frame("openAI", "synthesis")]
    /\ UNCHANGED <<parked, pf, env, embeddings, table, embed_of, fm, fm_result, fm_writes, gl>>

(***************************************************************************)
(* Facts about a run of get_llm_responses, read from its event log         *)
(***************************************************************************)
IsSubstring(t, s) ==
    \E i \in 1..(Len(s) - Len(t) + 1) : SubSeq(s, i, i + Len(t) - 1) = t

GenerationAt == {k \in DOMAIN gl.events : gl.events[k].kind = "generation"}
SucceededAt == {k \in GenerationAt : ~gl.events[k].result.raised}
SynthesisAt == {k \in DOMAIN gl.events : gl.events[k].kind = "synthesis"}
SaveAt == {k \in DOMAIN gl.events : gl.events[k].kind = "save"}

\* the loop over the three providers has ended
FanoutComplete ==
    \/ gl.pc \in {"evaluate", "synthesize", "save"}
    \/ gl.pc = "done" /\ gl.model = "moa" /\ Len(gl.events) >= Len(Providers)

\* provider calls that returned, but with nothing left after str.strip()
EmptyAt ==
    {k \in GenerationAt :
        ~gl.events[k].outcome.raises /\ Strip(gl.events[k].outcome.content) = <<>>}

\* the label under which responses_to_synthesize presents a provider
SynthesisLabel(model_name) ==
    CASE model_name = "openai" -> "OpenAI Response:\n"
      [] model_name = "deepseek" -> "Deepseek Response:\n"
      [] model_name = "anthropic" -> "Claude Response:\n"

ResponseColumns(row) ==
    <<row.openai_response, row.deepseek_response, row.anthropic_response,
      row.final_response>>

(***************************************************************************)
(* C7: in the MOA path, when exactly one of the three provider calls       *)
(* succeeds, final_response is that provider's text verbatim and no        *)
(* synthesis call is made.                                                 *)
(***************************************************************************)
C7_SingleSuccessVerbatim ==
    (FanoutComplete /\ Cardinality(SucceededAt) = 1) =>
        /\ SynthesisAt = {}
        /\ (gl.pc = "done" /\ ~gl.raised) =>
              \A k \in SucceededAt : gl.final_response = gl.events[k].result.value

(***************************************************************************)
(* C8: in the MOA path, when all three provider calls fail the run ends in *)
(* an explicit failure: no synthesis call, no final_response, the saving   *)
(* UPDATE is never executed and the stored response columns are unchanged. *)
(***************************************************************************)
C8_AllFailIsFailure ==
    (FanoutComplete /\ SucceededAt = {}) =>
        /\ SynthesisAt = {}
        /\ SaveAt = {}
        /\ gl.final_response = NULL
        /\ gl.pc \in {"evaluate", "done"}
        /\ gl.pc = "done" => gl.raised
        /\ ResponseColumns(table[gl.req_id]) = ResponseColumns(gl.row_at_start[1])

\* all three providers raised, the run ended by raising, and the row still
\* holds the responses of an earlier run
C8_Witness ==
    /\ gl.pc = "done"
    /\ gl.raised
    /\ Cardinality(GenerationAt) = 3
    /\ SucceededAt = {}
    /\ table[gl.req_id].final_response = Some(OldText)

(***************************************************************************)
(* C9: in the MOA path the synthesis call is issued only after one call to *)
(* each of openai, deepseek and anthropic has returned or raised, every    *)
(* provider being attempted exactly once whatever the earlier ones did,    *)
(* and the save happens only after final_response has been determined.     *)
(***************************************************************************)
C9_SynthesisAfterFanout ==
    /\ \A k \in SynthesisAt :
          \A m \in {"openai", "deepseek", "anthropic"} :
              Cardinality({j \in GenerationAt : j < k /\ gl.events[j].model = m}) = 1
    /\ FanoutComplete =>
          \A m \in {"openai", "deepseek", "anthropic"} :
              Cardinality({j \in GenerationAt : gl.events[j].model = m}) = 1
    /\ \A k \in SaveAt :
          /\ \E j \in SynthesisAt : j < k
          /\ gl.final_response # NULL
          /\ table[gl.req_id].final_response = gl.final_response

\* the first two providers raised, the third answered, and the run went on
\* to synthesize and save
C9_Witness ==
    /\ gl.pc = "done"
    /\ SaveAt # {}
    /\ Cardinality(GenerationAt) = 3
    /\ Cardinality(SucceededAt) = 1
    /\ gl.model_responses["anthropic"] # NULL

(***************************************************************************)
(* C10: the synthesis prompt contains, as a verbatim substring, the full   *)
(* text of every provider response that was counted as successful.         *)
(***************************************************************************)
\* the provider outcomes of the run as the status-tagged results that
\* create_synthesis_prompt of moa_sequential takes
StatusTagged(k) ==
    IF gl.events[k].result.raised
    THEN [model |-> gl.events[k].model, status |-> "error", response |-> <<>>]
    ELSE [model |-> gl.events[k].model, status |-> "success",
          response |-> gl.events[k].result.value[1]]

StatusTaggedResults == [k \in 1..Cardinality(GenerationAt) |-> StatusTagged(k)]

C10_SynthesisPromptVerbatim ==
    gl.synthesis_prompt # <<>> =>
        \A k \in SucceededAt :
            /\ \E i \in DOMAIN gl.synthesis_prompt :
                  IsSubstring(gl.events[k].result.value[1],
                              gl.synthesis_prompt[i].content)
            /\ IsSubstring(gl.events[k].result.value[1],
                           CreateSynthesisPrompt(ReqChars(gl.requirement[1]),
                                                 StatusTaggedResults)[2].content)

\* a prompt built from two different successful responses, one of them
\* longer than one character
C10_Witness ==
    /\ gl.synthesis_prompt # <<>>
    /\ gl.model_responses["openai"] = Some(<<"a">>)
    /\ gl.model_responses["anthropic"] = Some(<<"b", "c">>)
    /\ IsSubstring(<<"b", "c">>, gl.synthesis_prompt[2].content)

(***************************************************************************)
(* C11: in the MOA path a provider whose call failed, or whose output was  *)
(* empty after trimming, contributes no text to the synthesis prompt and   *)
(* is not counted as a successful provider when deciding whether to        *)
(* synthesize.                                                             *)
(***************************************************************************)
C11_FailedOrEmptyContributesNothing ==
    /\ gl.synthesis_prompt # <<>> =>
          \A k \in (GenerationAt \ SucceededAt) \cup EmptyAt :
              \A i \in DOMAIN gl.synthesis_prompt :
                  ~IsSubstring(<<SynthesisLabel(gl.events[k].model)>>,
                               gl.synthesis_prompt[i].content)
    /\ (FanoutComplete /\ SucceededAt \subseteq EmptyAt) =>
          /\ gl.synthesis_prompt = <<>>
          /\ SynthesisAt = {}

\* the part of C11 about calls that raised
C11_FailedContributesNothing ==
    /\ gl.synthesis_prompt # <<>> =>
          \A k \in GenerationAt \ SucceededAt :
              \A i \in DOMAIN gl.synthesis_prompt :
                  ~IsSubstring(<<SynthesisLabel(gl.events[k].model)>>,
                               gl.synthesis_prompt[i].content)
    /\ (FanoutComplete /\ SucceededAt = {}) =>
          /\ gl.synthesis_prompt = <<>>
          /\ SynthesisAt = {}

(***************************************************************************)
(* C12: in the MOA path, if at least one provider succeeded and the        *)
(* synthesis call raises, no exception leaves the synthesis step and       *)
(* final_response is the first successful individual response in the       *)
(* order openai, deepseek, anthropic; the responses are then saved.        *)
(***************************************************************************)
SynthesisRaised == \E k \in SynthesisAt : gl.events[k].result.raised

\* the response of the first provider, in the order of Providers, whose call
\* returned
FirstSuccessful ==
    LET ok(i) == \E k \in SucceededAt : gl.events[k].model = Providers[i]
        first == CHOOSE i \in DOMAIN Providers :
                     ok(i) /\ \A j \in DOMAIN Providers : ok(j) => i <= j
    IN  gl.model_responses[Providers[first]]

C12_SynthesisFailureFallsBack ==
    (SynthesisRaised /\ SucceededAt # {}) =>
        /\ gl.pc \in {"save", "done"}
        /\ gl.pc = "save" => ~gl.raised
        /\ gl.final_response # NULL
        /\ gl.final_response = FirstSuccessful
        /\ (gl.pc = "done" /\ ~gl.raised) =>
              /\ SaveAt # {}
              /\ table[gl.req_id].final_response = FirstSuccessful
              /\ \A m \in {"openai", "deepseek", "anthropic"} :
                    table[gl.req_id][m \o "_response"] = gl.model_responses[m]

\* openai raised, deepseek and anthropic answered differently, the synthesis
\* call raised and deepseek's answer was saved as final_response
C12_Witness ==
    /\ gl.pc = "done"
    /\ SynthesisRaised
    /\ gl.model_responses["openai"] = NULL
    /\ gl.model_responses["deepseek"] = Some(<<"a">>)
    /\ gl.model_responses["anthropic"] = Some(<<"b", "c">>)
    /\ table[gl.req_id].final_response = Some(<<"a">>)

(***************************************************************************)
(* Facts about a call of create_rfp_prompt                                 *)
(***************************************************************************)
PromptReturned ==
    /\ pf.pc = "built"
    /\ ~pf.prompt.raised
    /\ pf.previous_responses # NULL

PreviousResponses == pf.previous_responses[1]

AppearsInMessages(text) ==
    \E i \in DOMAIN pf.prompt.value : IsSubstring(text, pf.prompt.value[i].content)

\* the score is a number below 0.90, or there is none
BelowThreshold(resp) ==
    \/ resp.similarity_score.kind = "missing"
    \/ resp.similarity_score.kind = "float" /\ resp.similarity_score.pm < PromptThresholdPm

\* the response is one of the examples of the user message
IncludedAsExample(resp) ==
    IsSubstring(<<"Original Requirement: ">> \o resp.requirement \o <<"\n">>,
                pf.prompt.value[2].content)

(***************************************************************************)
(* C13: for every list of matches passed to create_rfp_prompt, no match    *)
(* whose similarity_score is below 0.90, or missing, has its requirement   *)
(* text or its response text in the returned messages.                     *)
(***************************************************************************)
C13_NoSubThresholdText ==
    PromptReturned =>
        \A k \in DOMAIN PreviousResponses :
            BelowThreshold(PreviousResponses[k]) =>
                /\ ~AppearsInMessages(PreviousResponses[k].requirement)
                /\ ~AppearsInMessages(PreviousResponses[k].response)

\* a list that starts with a match at 0.85 and a match without a score and
\* goes on with a match at 0.95, which is the only one in the prompt
C13_Witness ==
    /\ PromptReturned
    /\ Len(PreviousResponses) = 3
    /\ PreviousResponses[1].similarity_score = FloatScore(850)
    /\ PreviousResponses[2].similarity_score = MissingScore
    /\ PreviousResponses[3].similarity_score = FloatScore(950)
    /\ IncludedAsExample(PreviousResponses[3])
    /\ AppearsInMessages(PreviousResponses[3].response)

(***************************************************************************)
(* C14: create_rfp_prompt includes at most 3 matches, and for any input    *)
(* order of the match list the included ones are the 3 highest-scoring     *)
(* matches among those with similarity_score >= 0.90.                      *)
(***************************************************************************)
IncludedAt ==
    {k \in DOMAIN PreviousResponses : IncludedAsExample(PreviousResponses[k])}

AtThresholdAt ==
    {k \in DOMAIN PreviousResponses : ~BelowThreshold(PreviousResponses[k])}

ScoreAt(k) == PreviousResponses[k].similarity_score.pm

C14_ThreeHighestForAnyOrder ==
    PromptReturned =>
        /\ Cardinality(IncludedAt) <= MaxExamples
        /\ IncludedAt \subseteq AtThresholdAt
        /\ Cardinality(AtThresholdAt) >= MaxExamples
              => Cardinality(IncludedAt) = MaxExamples
        /\ Cardinality(AtThresholdAt) < MaxExamples => IncludedAt = AtThresholdAt
        /\ \A i \in IncludedAt : \A j \in AtThresholdAt \ IncludedAt :
              ScoreAt(i) >= ScoreAt(j)

\* the part of C14 that does not depend on the order: at most 3 matches,
\* all at or above the threshold, and as many as there are up to 3; when the
\* list comes sorted by score they are the highest-scoring ones
C14_FirstThreeAtThreshold ==
    PromptReturned =>
        /\ Cardinality(IncludedAt) <= MaxExamples
        /\ IncludedAt \subseteq AtThresholdAt
        /\ Cardinality(AtThresholdAt) >= MaxExamples
              => Cardinality(IncludedAt) = MaxExamples
        /\ Cardinality(AtThresholdAt) < MaxExamples => IncludedAt = AtThresholdAt
        /\ \A i \in IncludedAt : \A j \in AtThresholdAt \ IncludedAt : i < j
        /\ (\A a, b \in AtThresholdAt : a < b => ScoreAt(a) >= ScoreAt(b)) =>
              \A i \in IncludedAt : \A j \in AtThresholdAt \ IncludedAt :
                  ScoreAt(i) >= ScoreAt(j)

(***************************************************************************)
(* C15: each match included by create_rfp_prompt is rendered with a title  *)
(* made of the first 5 words of its requirement text, its customer name    *)
(* exactly when one is available, and its similarity score as a percentage *)
(* citation equal to that score; a prompt built from matches at 0.95, 0.93 *)
(* and 0.91 contains three distinct percentage citations, none below 90%.  *)
(***************************************************************************)
UserContent == pf.prompt.value[2].content

\* the first 5 words of a text, single blanks between them
FirstWords(text) ==
    LET words == Split(text)
    IN  JoinSpace(SubSeq(words, 1, IF Len(words) < TitleWords
                                   THEN Len(words) ELSE TitleWords))

\* a score as a percentage: 0.95 is cited as 95%
PercentCitation(pm) ==
    LET pct == (pm + 5) \div 10
    IN  (IF pct >= 100 THEN <<DigitChar(pct \div 100)>> ELSE <<>>)
        \o <<DigitChar((pct \div 10) % 10), DigitChar(pct % 10), "%">>

CustomerLabels ==
    {i \in DOMAIN UserContent : UserContent[i] = "Customer/Client: "}

TitleAndCustomerRendered(resp) ==
    /\ \E i \in {1, 2, 3} :
          IsSubstring(<<"**Source ", DigitChar(i), ": ">> \o FirstWords(resp.requirement),
                      UserContent)
    /\ resp.customer # <<>> =>
          IsSubstring(<<" for ">> \o resp.customer \o <<" (Similarity: ">>, UserContent)

C15_TitleCustomerPercentage ==
    PromptReturned =>
        /\ \A k \in IncludedAt :
              /\ TitleAndCustomerRendered(PreviousResponses[k])
              /\ IsSubstring(PercentCitation(ScoreAt(k)), UserContent)
        /\ Cardinality(CustomerLabels) =
              Cardinality({k \in IncludedAt : PreviousResponses[k].customer # <<>>})

\* what the examples do carry: the title, the customer name exactly when
\* there is one, and the score with two decimals
C15_TitleCustomerFraction ==
    PromptReturned =>
        /\ \A k \in IncludedAt :
              /\ TitleAndCustomerRendered(PreviousResponses[k])
              /\ IsSubstring(<<" (Similarity: ">> \o Fmt2(ScoreAt(k)) \o <<")**:\n">>,
                             UserContent)
        /\ Cardinality(CustomerLabels) =
              Cardinality({k \in IncludedAt : PreviousResponses[k].customer # <<>>})

(***************************************************************************)
(* C16: for the Anthropic provider the system-role message of the          *)
(* generation prompt is supplied through the separate system field of the  *)
(* request, and the message list passed holds only the remaining user and  *)
(* assistant turns with their content unchanged, in single-model           *)
(* generation and in the MOA fan-out alike.                                *)
(***************************************************************************)
AnthropicCalls ==
    {k \in DOMAIN gl.events :
        gl.events[k].kind \in {"generation", "single"} /\ gl.events[k].model = "anthropic"}

\* the generation prompt of the run, as create_rfp_prompt returns it
GenerationPrompt ==
    CreateRfpPrompt(ReqChars(gl.requirement[1]), CategoryOf(gl.requirement[1]),
                    Some(gl.previous_responses)).value

C16_SystemMessageInSystemField ==
    \A k \in AnthropicCalls :
        /\ gl.events[k].request.system = FirstSystemContent(GenerationPrompt)
        /\ gl.events[k].request.messages = WithoutSystem(GenerationPrompt)

\* what the request does carry: the default system text in the system field,
\* no system-role message in the list, and the generation prompt's system
\* message in front of the first user turn
C16_SystemMessageInFirstTurn ==
    \A k \in AnthropicCalls :
        LET request == gl.events[k].request
            rest == WithoutSystem(GenerationPrompt)
        IN  /\ request.system = Some(DefaultSystemMessage)
            /\ Len(request.messages) = Len(rest)
            /\ \A i \in DOMAIN request.messages :
                  /\ request.messages[i].role = rest[i].role
                  /\ request.messages[i].role \in {"user", "assistant"}
                  /\ i > 1 => request.messages[i].content = rest[i].content
            /\ request.messages[1].content =
                  FirstSystemContent(GenerationPrompt)[1] \o <<"\n\nHuman: ">>
                  \o rest[1].content

(***************************************************************************)
(* Facts about a raw response handed to extract_text and to prompt_gpt     *)
(***************************************************************************)
Extracted == pf.pc \in {"extracted", "answered"}
Answered == pf.pc = "answered"

\* none of the shapes extract_text knows: no str, no content or text that is
\* a str or a list, no message.content or choices to read a text from
Unrecognized(response) ==
    /\ response.kind = "object"
    /\ response.content.t \in {"absent", "none", "int"}
    /\ response.text.t \in {"absent", "none", "int"}
    /\ MessageContentText(response.message) = NULL
    /\ ChoicesContent(response.choices) = NULL

\* a list of blocks that all carry a str text, not all of them empty
TextBlocks(response) ==
    /\ response.kind = "object"
    /\ response.content.t = "list"
    /\ \A i \in DOMAIN response.content.blocks :
          /\ response.content.blocks[i].kind = "object"
          /\ response.content.blocks[i].text.t = "str"
    /\ \E i \in DOMAIN response.content.blocks :
          response.content.blocks[i].text.v # <<>>

(***************************************************************************)
(* C17: extract_text never raises, whatever the shape of the response: it  *)
(* takes the plain string, then the join of a list of blocks, then nested  *)
(* message and choice structures, and for anything unrecognized (an object *)
(* whose text or content attribute is None or of an unexpected type        *)
(* included) it returns the string coercion of the response.               *)
(***************************************************************************)
C17_ExtractTextNeverRaises ==
    Extracted =>
        /\ ~pf.extracted.raised
        /\ pf.response.kind = "str" => pf.extracted = ReturnStr(pf.response.s)
        /\ TextBlocks(pf.response) =>
              pf.extracted =
                  ReturnStr(JoinTexts([i \in DOMAIN pf.response.content.blocks |->
                                          pf.response.content.blocks[i].text.v]))
        /\ Unrecognized(pf.response) =>
              pf.extracted = ReturnStr(StrOfResponse(pf.response))

\* what does hold: the plain string and the joined blocks come back as they
\* are, and the only exception is the one of a text attribute that is not a
\* str on an object without a content attribute
C17_RaisesOnlyForTextAttribute ==
    Extracted =>
        /\ pf.extracted.raised <=>
              /\ pf.response.kind = "object"
              /\ pf.response.content.t = "absent"
              /\ pf.response.text.t \in {"none", "int"}
        /\ pf.response.kind = "str" => pf.extracted = ReturnStr(pf.response.s)
        /\ TextBlocks(pf.response) =>
              pf.extracted =
                  ReturnStr(JoinTexts([i \in DOMAIN pf.response.content.blocks |->
                                          pf.response.content.blocks[i].text.v]))
        /\ (Unrecognized(pf.response) /\ pf.response.content.t = "absent"
                /\ pf.response.text.t = "absent") =>
              pf.extracted = ReturnStr(StrOfResponse(pf.response))

(***************************************************************************)
(* C18: when a provider's raw response carries no usable content (no       *)
(* choices, or an empty list of content blocks), prompt_gpt reports a      *)
(* failure for that provider instead of returning text.                    *)
(***************************************************************************)
NoChoicesFromDeepseek ==
    /\ pf.model_name = "deepseek"
    /\ pf.response.kind = "object"
    /\ pf.response.choices.items = <<>>

NoContentBlocksFromAnthropic ==
    /\ pf.model_name = "anthropic"
    /\ pf.response.kind = "object"
    /\ pf.response.content = ListValue(<<>>)

C18_NoContentIsFailure ==
    (Answered /\ (NoChoicesFromDeepseek \/ NoContentBlocksFromAnthropic)) =>
        pf.result.raised

\* the part of C18 about a response without choices
C18_NoChoicesIsFailure ==
    (Answered /\ NoChoicesFromDeepseek) => pf.result.raised

(***************************************************************************)
(* C19: when the query embedding is empty, has a dimensionality different  *)
(* from the stored vectors, or has zero magnitude, retrieval fails with an *)
(* error result (success = false) and does not return a successful, empty  *)
(* match list.                                                             *)
(***************************************************************************)
InvalidQuery(q) ==
    \/ q = <<>>
    \/ \E i \in CorpusIds :
          embeddings[i].embedding # NULL /\ Len(embeddings[i].embedding[1]) # Len(q)
    \/ Norm2(q) = 0

C19_InvalidQueryIsError ==
    (FmDone /\ fm.current_embedding # NULL /\ InvalidQuery(fm.current_embedding[1])) =>
        ~fm_result.success

\* what an invalid query vector does give when nothing else fails: success
\* with no match
C19_InvalidQueryFindsNothing ==
    (FmDone /\ fm.current_embedding # NULL /\ InvalidQuery(fm.current_embedding[1])
            /\ fm.faults = {}) =>
        /\ fm_result.success
        /\ fm_result.similar_matches = <<>>

(***************************************************************************)
(* C20: running get_llm_responses twice for the same requirement id with   *)
(* the same provider outcomes leaves the stored row (per-provider          *)
(* responses, final_response, similar_questions, model_provider) as it was *)
(* after the first run: each run overwrites, nothing accumulates.          *)
(***************************************************************************)
\* a run after the first has ended, by returning or by raising
LaterRunEnded == env.runs >= 1 /\ gl.pc = "done"

TabFields == {"openai_response", "anthropic_response", "deepseek_response",
              "final_response"}

IsResultRecord(v, model) ==
    /\ v.type = "dict"
    /\ "success" \in DOMAIN v.items
    /\ Truthy(v.items["success"])
    /\ model = "moa" => TabFields \subseteq DOMAIN v.items

GenerationSucceeded == gl.pc = "done" /\ ~gl.raised

C21_ReturnsResultRecord ==
    GenerationSucceeded =>
        gl.returned # NULL /\ IsResultRecord(gl.returned[1], gl.model)

\* what does hold: every run that ends without an exception returns None
C21_ReturnsNone ==
    GenerationSucceeded => gl.returned = Some(PyNone)

(***************************************************************************)
(* C22: after every find_similar_matches call that returns success, the    *)
(* similar_questions snapshot stored on the requirement corresponds to the *)
(* returned match list; a successful call that returns no matches does not *)
(* leave an older, non-empty snapshot in place.                            *)
(***************************************************************************)
StoredSnapshot == table[fm.req_id].similar_questions

\* the snapshot lists the returned matches, one item each, in their order
SnapshotCorrespondsTo(snapshot, matches) ==
    IF matches = <<>>
    THEN snapshot = NULL \/ snapshot[1].items = <<>>
    ELSE /\ snapshot # NULL
         /\ Len(snapshot[1].items) = Len(matches)
         /\ \A k \in 1..Len(matches) :
                /\ snapshot[1].items[k].question = matches[k].id
                /\ snapshot[1].items[k].similarity_score
                       = matches[k].similarity_score

C22_SnapshotMatchesResult ==
    (FmDone /\ fm_result.success) =>
        SnapshotCorrespondsTo(StoredSnapshot, fm_result.similar_matches)

\* what does hold: a successful call that returns matches has stored them,
\* and a successful call that returns none has written nothing
C22_NonEmptyResultIsStored ==
    (FmDone /\ fm_result.success) =>
        IF fm_result.similar_matches # <<>>
        THEN StoredSnapshot = Some(SimilarQuestionsForDb(fm_result.similar_matches))
        ELSE fm_writes = 0

(***************************************************************************)
(* C23: in generate_moa_response (moa_final), whenever at least one of the *)
(* three providers succeeds, whichever it is, the result has status        *)
(* success with a non-empty final_response; when exactly one provider      *)
(* succeeded that final_response is its text verbatim; the error result is *)
(* returned only when all three providers failed.                          *)
(***************************************************************************)
MoaReturned == moa.pc = "done"

SucceededModels ==
    {m \in DOMAIN moa.model_responses : moa.model_responses[m].status = "success"}

C23_AnySuccessGivesSuccess ==
    MoaReturned =>
        LET result == moa.result[1]
        IN  /\ SucceededModels # {} =>
                  /\ result.status = "success"
                  /\ result.final_response # NULL
                  /\ result.final_response[1] # <<>>
            /\ \A m \in SucceededModels :
                  SucceededModels = {m} =>
                      result.final_response = moa.model_responses[m].response
            /\ result.status = "error" => SucceededModels = {}

\* what does hold: the result is the error result exactly when neither
\* OpenAI nor Anthropic succeeded, whatever DeepSeek did, and a success result
\* carries the synthesis output or, when the synthesis failed, the text of
\* OpenAI or else of Anthropic
C23_PrimarySuccessGivesSuccess ==
    MoaReturned =>
        LET result == moa.result[1]
            primary == SucceededModels \cap {"openai", "anthropic"}
        IN  /\ result.status = "error" <=> primary = {}
            /\ result.status = "success" =>
                  result.final_response =
                      IF moa.synthesis_result.status = "success"
                      THEN moa.synthesis_result.response
                      ELSE IF "openai" \in primary
                      THEN moa.model_responses["openai"].response
                      ELSE moa.model_responses["anthropic"].response

(***************************************************************************)
(* C30: get_model_response (moa_integration) terminates after at most      *)
(* max_retries + 1 calls to the provider, retries only after a failure     *)
(* whose message mentions a timeout, never retries after a success or a    *)
(* non-timeout error, and always returns a dict with status success or     *)
(* error.                                                                  *)
(***************************************************************************)
\* the calls made so far are within the limit, every call but the last was a
\* failure that mentions a timeout, and what was returned is a result dict
BoundedRetries ==
    moa.pc \in {"loop", "done"} =>
        /\ Len(moa.calls) <= (IF moa.max_retries < 0 THEN 0 ELSE moa.max_retries + 1)
        /\ \A k \in 1..(Len(moa.calls) - 1) :
              Failed(moa.calls[k]) /\ MentionsTimeout(moa.calls[k].text)
        /\ moa.pc = "done" =>
              /\ moa.result # NULL
              /\ moa.result[1].status \in {"success", "error"}

C30_TerminatesWithinRetries == []BoundedRetries /\ <>(moa.pc = "done")

\* a call that was retried max_retries times after timeouts and has returned
C30_Witness ==
    /\ moa.pc = "done"
    /\ moa.max_retries = 2
    /\ Len(moa.calls) = 3
    /\ moa.result[1].status = "success"

(***************************************************************************)
(* C24: in generate_integrated_moa_response each of the three providers    *)
(* (openAI, anthropic, deepseek) is attempted regardless of the outcome of *)
(* the other two: the failure of one or two providers never causes another *)
(* provider's call to be skipped.                                          *)
(***************************************************************************)
IntegratedReturned == moa.pc = "done"

AttemptedModels ==
    {m \in DOMAIN moa.model_responses : moa.model_responses[m].status # "missing"}

C24_EveryProviderAttempted ==
    (IntegratedReturned /\ moa.elapsed_under_60) =>
        AttemptedModels = {"openai", "anthropic", "deepseek"}

\* what does hold: OpenAI and Anthropic are always attempted, and DeepSeek is
\* attempted exactly when under 60 seconds have passed and OpenAI or
\* Anthropic succeeded
C24_DeepSeekNeedsPrimarySuccess ==
    IntegratedReturned =>
        /\ {"openai", "anthropic"} \subseteq AttemptedModels
        /\ "deepseek" \in AttemptedModels <=>
              /\ moa.elapsed_under_60
              /\ \E m \in {"openai", "anthropic"} :
                    moa.model_responses[m].status = "success"
        /\ moa.result[1].models_attempted = Cardinality(AttemptedModels)

(***************************************************************************)
(* C26: in every success result of generate_integrated_moa_response,       *)
(* used_model is 'moa' exactly when final_response is the output of a      *)
(* successful synthesis call; otherwise used_model names a provider whose  *)
(* own call succeeded and final_response is that provider's text verbatim. *)
(***************************************************************************)
C26_UsedModelNamesTheSource ==
    (IntegratedReturned /\ moa.result[1].status = "success") =>
        LET result == moa.result[1]
        IN  /\ result.used_model = "moa" <=> moa.synthesis_result.status = "success"
            /\ result.used_model = "moa" =>
                  result.final_response = moa.synthesis_result.response
            /\ result.used_model # "moa" =>
                  /\ result.used_model \in DOMAIN moa.model_responses
                  /\ moa.model_responses[result.used_model].status = "success"
                  /\ result.final_response
                        = moa.model_responses[result.used_model].response

\* the synthesis failed after OpenAI failed and the other two succeeded
C26_Witness ==
    /\ IntegratedReturned
    /\ moa.result[1].status = "success"
    /\ moa.synthesis_result.status = "error"
    /\ moa.model_responses["openai"].status = "error"
    /\ moa.result[1].used_model = "anthropic"
    /\ moa.model_responses["deepseek"].response # moa.model_responses["anthropic"].response

(***************************************************************************)
(* C25: run_model_with_timeout (moa_sequential) always returns a           *)
(* status-tagged result (success, error or timeout) and never lets an      *)
(* exception escape, for every instant at which the SIGALRM timeout can    *)
(* fire relative to the provider call, including after the call has        *)
(* returned or while an error is being handled but before the alarm is     *)
(* cancelled; a timeout therefore aborts only that call and the remaining  *)
(* providers are still attempted.                                          *)
(***************************************************************************)
SequentialStarted == moa.pc # "idle"

\* every model of model_order was attempted or skipped for lack of budget
EveryModelReached ==
    \A m \in DOMAIN moa.model_responses :
        moa.model_responses[m].status # "missing" \/ m \in moa.skipped

C25_TimeoutNeverEscapes ==
    SequentialStarted =>
        /\ ~moa.raised
        /\ \A m \in DOMAIN moa.model_responses :
              moa.model_responses[m].status \in {"missing", "success", "error", "timeout"}
        /\ moa.pc = "done" => EveryModelReached

\* what does hold: an alarm delivered during the provider call or in the rest
\* of the try block gives a result with status timeout (or, handled by
\* prompt_gpt, the result of the call), and the exception escapes exactly
\* when the alarm is delivered in an except clause or in the finally clause
C25_EscapesOnlyOutsideTry ==
    SequentialStarted =>
        /\ moa.raised <=> (moa.frame.pc = "none" /\ moa.frame.alarm = "fired"
                              /\ moa.frame.alarm_at \in {"handling", "finally"})
        /\ (moa.pc = "done" /\ ~moa.raised) => EveryModelReached
        /\ (moa.frame.pc = "finally" /\ ~moa.frame.raising) =>
              moa.frame.pending.status \in {"success", "error", "timeout"}
        /\ (moa.frame.pc = "finally" /\ moa.frame.alarm_at = "returned") =>
              moa.frame.pending.status = "timeout"

(***************************************************************************)
(* C27: in generate_moa_response_sequential a provider is attempted only   *)
(* when the remaining budget is at least its timeout plus the synthesis    *)
(* timeout, so if every provider call and the synthesis call end within    *)
(* their configured timeouts the elapsed time never exceeds                *)
(* TOTAL_TIMEOUT_SECONDS; a provider skipped for lack of budget is counted *)
(* neither in models_attempted nor in models_succeeded.                    *)
(***************************************************************************)
C27_BudgetBoundsElapsedTime ==
    SequentialStarted =>
        /\ \A k \in DOMAIN moa.budgets :
              moa.budgets[k].time_remaining
                  >= ModelTimeout(moa.budgets[k].model) + SYNTHESIS_TIMEOUT
        /\ ~moa.overran => moa.elapsed <= TOTAL_TIMEOUT_SECONDS
        /\ moa.models_attempted = Len(moa.budgets)
        /\ \A m \in moa.skipped : moa.model_responses[m].status = "missing"
        /\ moa.result # NULL =>
              /\ moa.result[1].models_attempted
                    = Len(ModelOrder) - Cardinality(moa.skipped)
              /\ moa.result[1].models_succeeded
                    = Cardinality({m \in DOMAIN moa.model_responses :
                                      moa.model_responses[m].status = "success"})
              /\ moa.result[1].total_time = moa.elapsed

\* a call overran, DeepSeek was skipped for lack of budget and the two models
\* attempted both succeeded
C27_Witness ==
    /\ moa.pc = "done"
    /\ moa.result # NULL
    /\ moa.skipped = {"deepseek"}
    /\ moa.result[1].models_attempted = 2
    /\ moa.result[1].models_succeeded = 2

(***************************************************************************)
(* C29: when get_llm_responses runs with skip_similarity_search=True and a *)
(* stored similar_questions snapshot exists, no similarity search is       *)
(* performed, and both the matches given to the prompt builder and the     *)
(* snapshot written back carry the same question, response, customer and   *)
(* reference values as the stored snapshot.                                *)
(***************************************************************************)
\* a run called with skip_similarity_search=True for a row that held a
\* snapshot has saved its responses
SkipRunSaved ==
    /\ gl.pc = "done"
    /\ ~gl.raised
    /\ gl.skip_argument
    /\ gl.row_at_start # NULL
    /\ gl.row_at_start[1].similar_questions # NULL

StoredItems == gl.row_at_start[1].similar_questions[1].items
WrittenItems == table[gl.req_id].similar_questions[1].items

NoSearchPerformed == gl.skip_similarity_search /\ fm.pc = "idle" /\ fm_result = None

C29_SkipReusesSnapshot ==
    SkipRunSaved =>
        /\ NoSearchPerformed
        /\ Len(gl.previous_responses) = Len(StoredItems)
        /\ \A k \in DOMAIN StoredItems :
              /\ gl.previous_responses[k].requirement
                    = RowRequirement(StoredItems[k].question)
              /\ gl.previous_responses[k].response = DocResponse(StoredItems[k].response)
              /\ gl.previous_responses[k].customer = StoredItems[k].customer
        /\ Len(WrittenItems) = Len(StoredItems)
        /\ \A k \in DOMAIN StoredItems :
              /\ WrittenItems[k].question = StoredItems[k].question
              /\ WrittenItems[k].response = StoredItems[k].response
              /\ WrittenItems[k].customer = StoredItems[k].customer
              /\ WrittenItems[k].reference = StoredItems[k].reference

\* what does hold: when the snapshot could be read no search is performed,
\* and the prompt builder and the new snapshot get the stored questions,
\* responses and scores in the stored order, with an empty customer and the
\* reference "Response #k"
C29_SkipKeepsQuestionAndResponse ==
    (SkipRunSaved /\ gl.skip_similarity_search) =>
        /\ NoSearchPerformed
        /\ Len(gl.previous_responses) = Len(StoredItems)
        /\ Len(WrittenItems) = Len(StoredItems)
        /\ \A k \in DOMAIN StoredItems :
              /\ gl.previous_responses[k].requirement
                    = RowRequirement(StoredItems[k].question)
              /\ gl.previous_responses[k].response = DocResponse(StoredItems[k].response)
              /\ gl.previous_responses[k].customer = <<>>
              /\ WrittenItems[k].question = StoredItems[k].question
              /\ WrittenItems[k].response = StoredItems[k].response
              /\ WrittenItems[k].similarity_score = StoredItems[k].similarity_score
              /\ WrittenItems[k].customer = <<>>
              /\ WrittenItems[k].reference = <<"Response #", k>>

(***************************************************************************)
(* C28: after any sequence or interleaving of get_llm_responses runs       *)
(* (single-model and MOA) on the same requirement id, whenever the stored  *)
(* model_provider is openai, anthropic or deepseek, the stored             *)
(* final_response equals that provider's stored response column;           *)
(* concurrent runs never leave final_response paired with a model_provider *)
(* from a different run.                                                   *)
(***************************************************************************)
ProviderColumn(row, provider) ==
    CASE provider = "openai" -> row.openai_response
      [] provider = "deepseek" -> row.deepseek_response
      [] provider = "anthropic" -> row.anthropic_response

\* the provider that answered with this text, "moa" for a synthesis, and the
\* number of the call it answered
AnsweredBy(response) == response[1]
AnsweredCall(response) == response[2]

C28_FinalMatchesProvider ==
    \A i \in DOMAIN table :
        LET row == table[i]
        IN  /\ (row.model_provider # NULL
                    /\ row.model_provider[1] \in {"openai", "deepseek", "anthropic"}) =>
                  /\ row.final_response # NULL
                  /\ row.final_response = ProviderColumn(row, row.model_provider[1])
                  /\ AnsweredBy(row.final_response[1]) = row.model_provider[1]
            /\ (row.model_provider = Some("moa") /\ row.final_response # NULL) =>
                  \E m \in {"openai", "deepseek", "anthropic"} :
                      /\ ProviderColumn(row, m) # NULL
                      /\ AnsweredCall(ProviderColumn(row, m)[1])
                            = AnsweredCall(row.final_response[1])

\* two runs were in progress together; the MOA run saved first and the
\* single-model run, called earlier, saved after it: the row names the
\* single model, whose column and the final response hold its answer, and
\* the other columns hold the answers of the MOA run
C28_Witness ==
    /\ parked.pc = "run"
    /\ parked.gl.pc = "done"
    /\ parked.gl.model = "moa"
    /\ gl.pc = "done"
    /\ gl.model = "claude"
    /\ table[1].model_provider = Some("anthropic")
    /\ table[1].final_response = Some(<<"anthropic", "1">>)
    /\ table[1].anthropic_response = Some(<<"anthropic", "1">>)
    /\ table[1].openai_response = Some(<<"openai", "2">>)

(***************************************************************************)
(* Specification of find_similar_matches                                   *)
(***************************************************************************)
\* A snapshot left in similar_questions by an earlier run against an older corpus.
OldSnapshot ==
    SimilarQuestionsForDb(<<[id |-> 1, similarity_score |-> [num |-> 1, den2 |-> 1]]>>)

InitTable ==
    \E t \in ReqTexts, sq \in {NULL, Some(OldSnapshot)} :
        table = [i \in ExistingIds |->
                    [requirement |-> t, similar_questions |-> sq,
                     openai_response |-> NULL, deepseek_response |-> NULL,
                     anthropic_response |-> NULL, final_response |-> NULL,
                     model_provider |-> NULL]]

Init ==
    /\ \E f \in [CorpusIds -> StoredVecs] :
           embeddings = [i \in CorpusIds |-> [requirement |-> i, embedding |-> f[i]]]
    /\ InitTable
    /\ embed_of \in QueryVecs
    /\ fm = FmIdle
    /\ fm_result = None
    /\ fm_writes = 0
    /\ moa = MoaIdle
    /\ parked = NoRun
    /\ gl = GlIdle
    /\ pf = PfIdle
    /\ env = NoEnv

Next ==
    \/ \E rid \in ReqIds : FM_Call(rid)
    \/ \E e \in BOOLEAN : FM_Lookup(e)
    \/ \E e \in BOOLEAN : FM_CountCheck(e)
    \/ \E e \in BOOLEAN, p \in BOOLEAN : FM_Embed(e, p)
    \/ \E e \in BOOLEAN : FM_Scan(e)
    \/ \E e \in BOOLEAN : FM_Store(e)

Spec == Init /\ [][Next]_vars

(***************************************************************************)
(* Specification of get_llm_responses (model = 'moa'), which calls         *)
(* find_similar_matches                                                    *)
(***************************************************************************)
InitMOA ==
    /\ \E v \in StoredVecs :
           embeddings = [i \in CorpusIds |->
                           [requirement |-> i,
                            embedding |-> IF i = 1 THEN v ELSE NULL]]
    /\ \E t \in ReqTexts, old \in {NULL, Some(OldText)} :
           table = [i \in ExistingIds |->
                      [requirement |-> t, similar_questions |-> NULL,
                       openai_response |-> old, deepseek_response |-> old,
                       anthropic_response |-> old, final_response |-> old,
                       model_provider |-> IF old = NULL THEN NULL ELSE Some("moa")]]
    /\ embed_of \in {<<1, 0>>, <<2, 1>>}
    /\ fm = FmIdle
    /\ fm_result = None
    /\ fm_writes = 0
    /\ moa = MoaIdle
    /\ parked = NoRun
    /\ gl = GlIdle
    /\ pf = PfIdle
    /\ env = NoEnv

NextMOA ==
    \/ \E rid \in ReqIds, model \in Models : GL_Call(rid, model)
    \/ \E e \in BOOLEAN : GL_Lookup(e)
    \/ GL_Search
    \/ \E e \in BOOLEAN : FM_Lookup(e)
    \/ \E e \in BOOLEAN : FM_CountCheck(e)
    \/ \E e \in BOOLEAN, p \in BOOLEAN : FM_Embed(e, p)
    \/ \E e \in BOOLEAN : FM_Scan(e)
    \/ \E e \in BOOLEAN : FM_Store(e)
    \/ GL_SearchDone
    \/ \E o \in ApiOutcomes : GL_Provider(o)
    \/ GL_Evaluate
    \/ \E o \in ApiOutcomes : GL_Synthesize(o)
    \/ \E e \in BOOLEAN : GL_Save(e)
    \/ \E o \in ApiOutcomes : GL_Single(o)
    \/ \E e \in BOOLEAN : GL_SaveSingle(e)

SpecMOA == InitMOA /\ [][NextMOA]_vars

(***************************************************************************)
(* Specification of the prompt builder: create_rfp_prompt applied to a     *)
(* list of previous responses                                              *)
(***************************************************************************)
\* The store and the two orchestrating functions at rest.
QuietStore ==
    /\ embeddings = [i \in CorpusIds |-> [requirement |-> i, embedding |-> NULL]]
    /\ table = [i \in ExistingIds |->
                  [requirement |-> 0, similar_questions |-> NULL,
                   openai_response |-> NULL, deepseek_response |-> NULL,
                   anthropic_response |-> NULL, final_response |-> NULL,
                   model_provider |-> NULL]]
    /\ embed_of = <<1, 0>>
    /\ fm = FmIdle
    /\ fm_result = None
    /\ fm_writes = 0
    /\ moa = MoaIdle
    /\ parked = NoRun
    /\ gl = GlIdle
    /\ env = NoEnv

PromptScores ==
    {MissingScore, StrScore(950), FloatScore(850),
     FloatScore(910), FloatScore(930), FloatScore(950)}

Match(d, score) ==
    [requirement |-> DocRequirement(d), response |-> DocResponse(d),
     customer |-> DocCustomer(d), similarity_score |-> score]

Docs == 1..MaxMatches

\* the earlier answers in the order of their ids, or in the opposite order
DocOrders(n) == {[k \in 1..n |-> k], [k \in 1..n |-> n + 1 - k]}

\* lists of up to MaxMatches matches, each from a different earlier answer
MatchLists ==
    UNION {{[k \in 1..n |-> Match(p[k], sc[k])] :
               p \in DocOrders(n), sc \in [1..n -> PromptScores]} : n \in 0..MaxMatches}

\* a requirement without a category and one with a category
RequirementsAndCategories == {<<0, "None">>, <<1, "Security">>}

InitPrompt ==
    /\ QuietStore
    /\ \E rc \in RequirementsAndCategories,
          prev \in {NULL} \cup {Some(ms) : ms \in MatchLists} :
           pf = [pc |-> "ready", requirement |-> ReqChars(rc[1]), category |-> rc[2],
                 previous_responses |-> prev,
                 prompt |-> [raised |-> FALSE, value |-> <<>>]]

PB_CreateRfpPrompt ==
    /\ pf.pc = "ready"
    /\ pf' = [pf EXCEPT !.pc = "built",
                        !.prompt = CreateRfpPrompt(pf.requirement, pf.category,
                                                   pf.previous_responses)]
    /\ UNCHANGED <<moa, parked, embeddings, table, embed_of, fm, fm_result, fm_writes, gl, env>>

NextPrompt == PB_CreateRfpPrompt

SpecPrompt == InitPrompt /\ [][NextPrompt]_vars

(***************************************************************************)
(* Specification of the provider gateway: extract_text and prompt_gpt      *)
(* applied to a raw response                                               *)
(***************************************************************************)
Blocks ==
    {ObjectBlock(x) : x \in {Absent, NoneValue, StrValue(<<"a">>), StrValue(<<>>)}}
    \cup {DictBlock(x) : x \in {Absent, NoneValue, StrValue(<<"b">>)}}

ContentLists == UNION {[1..n -> Blocks] : n \in 0..MaxBlocks}

ContentValues ==
    {NoneValue, IntValue, StrValue(<<"c">>), StrValue(<<" ">>)}
    \cup {ListValue(blocks) : blocks \in ContentLists}

TextValues == {Absent, NoneValue, IntValue, StrValue(<<"t">>)}

OutputTextValues == {Absent, NoneValue, StrValue(<<" ", "o">>), StrValue(<<>>)}

MessageValues ==
    {NoMessage, Message(Absent),
     Message(ListValue(<<ObjectBlock(StrValue(<<"m">>))>>)),
     Message(ListValue(<<ObjectBlock(NoneValue)>>))}

ChoicesValues ==
    {NoChoices, Choices(<<>>), Choices(<<Choice(NoMessage)>>),
     Choices(<<Choice(Message(NoneValue))>>),
     Choices(<<Choice(Message(StrValue(<<"d", " ">>)))>>)}

\* a str, an object with a content attribute, or an object without one
RawResponses ==
    {StrResponse(<<"s">>), StrResponse(<<>>)}
    \cup {ObjectResponse(Absent, c, t, NoMessage, NoChoices) :
             c \in ContentValues, t \in TextValues}
    \cup {ObjectResponse(o, Absent, t, m, ch) :
             o \in OutputTextValues, t \in TextValues,
             m \in MessageValues, ch \in ChoicesValues}

InitGateway ==
    /\ QuietStore
    /\ \E m \in {"openai", "deepseek", "anthropic"}, r \in RawResponses :
           pf = [pc |-> "received", model_name |-> m, response |-> r,
                 extracted |-> ReturnStr(<<>>), result |-> NoResult]

GW_ExtractText ==
    /\ pf.pc = "received"
    /\ pf' = [pf EXCEPT !.pc = "extracted", !.extracted = ExtractText(pf.response)]
    /\ UNCHANGED <<moa, parked, embeddings, table, embed_of, fm, fm_result, fm_writes, gl, env>>

\* prompt_gpt from the response handler on
GW_PromptGpt ==
    /\ pf.pc = "extracted"
    /\ pf' = [pf EXCEPT !.pc = "answered",
                        !.result = PromptGpt(pf.model_name,
                                             ResponseHandler(pf.model_name, pf.response))]
    /\ UNCHANGED <<moa, parked, embeddings, table, embed_of, fm, fm_result, fm_writes, gl, env>>

NextGateway == GW_ExtractText \/ GW_PromptGpt

SpecGateway == InitGateway /\ [][NextGateway]_vars

(***************************************************************************)
(* Specification of repeated runs of get_llm_responses for one requirement *)
(* with the same model, the providers answering the same in every run      *)
(***************************************************************************)
MaxRuns == 2

RetryOutcomes == {Raises, Content(<<"a">>), Content(<<" ", "b", "c", " ">>)}

InitRetry ==
    /\ \E v \in {NULL, Some(<<1, 0>>)} :
           embeddings = [i \in CorpusIds |->
                           [requirement |-> i,
                            embedding |-> IF i = 1 THEN v ELSE NULL]]
    /\ \E old \in {NULL, Some(OldText)} :
           table = [i \in ExistingIds |->
                      [requirement |-> 1, similar_questions |-> NULL,
                       openai_response |-> old, deepseek_response |-> old,
                       anthropic_response |-> old, final_response |-> old,
                       model_provider |-> IF old = NULL THEN NULL ELSE Some("moa")]]
    /\ embed_of = <<1, 0>>
    /\ fm = FmIdle
    /\ fm_result = None
    /\ fm_writes = 0
    /\ moa = MoaIdle
    /\ parked = NoRun
    /\ gl = GlIdle
    /\ pf = PfIdle
    /\ \E m \in Models, p \in [{"openai", "deepseek", "anthropic"} -> RetryOutcomes],
          s \in RetryOutcomes, e \in BOOLEAN :
           env = [fixed |-> TRUE, model |-> m, provider |-> p, synthesis |-> s,
                  embedding_error |-> e, runs |-> 0, first_row |-> table]

\* the caller takes the outcome of a run and may start the next one
RT_Return ==
    /\ gl.pc = "done"
    /\ env.runs < MaxRuns
    /\ env' = [env EXCEPT !.runs = @ + 1,
                          !.first_row = IF env.runs = 0 THEN table ELSE @]
    /\ gl' = GlIdle
    /\ UNCHANGED <<moa, parked, pf, embeddings, table, embed_of, fm, fm_result, fm_writes>>

NextRetry ==
    \/ \E rid \in ExistingIds : env.runs < MaxRuns /\ GL_Call(rid, env.model)
    \/ GL_Lookup(FALSE)
    \/ GL_Search
    \/ FM_Lookup(FALSE)
    \/ FM_CountCheck(FALSE)
    \/ FM_Embed(FALSE, env.embedding_error)
    \/ FM_Scan(FALSE)
    \/ FM_Store(FALSE)
    \/ GL_SearchDone
    \/ \E o \in RetryOutcomes :
          /\ gl.pc = "fanout"
          /\ o = env.provider[Providers[gl.idx]]
          /\ GL_Provider(o)
    \/ GL_Evaluate
    \/ GL_Synthesize(env.synthesis)
    \/ GL_Save(FALSE)
    \/ \E o \in RetryOutcomes :
          /\ gl.pc = "single"
          /\ o = env.provider[NormalizedName(gl.model)]
          /\ GL_Single(o)
    \/ GL_SaveSingle(FALSE)
    \/ RT_Return

SpecRetry == InitRetry /\ [][NextRetry]_vars


(***************************************************************************)
(* Specification of generate_moa_response (server/moa_final.py)            *)
(***************************************************************************)
FinalOutcomes ==
    {Returns(<<"a">>), Returns(<<"b">>), Returns(<<>>),
     Returns(<<"Error:", "quota">>), RaisesWith(<<"connection">>)}

InitFinal ==
    /\ QuietStore
    /\ pf = PfIdle

NextFinal ==
    \/ MF_Call
    \/ \E o \in FinalOutcomes : MF_Provider(o)
    \/ MF_Check
    \/ \E o \in FinalOutcomes : MF_Synthesize(o)

SpecFinal == InitFinal /\ [][NextFinal]_vars


(***************************************************************************)
(* Specification of get_model_response (server/moa_integration.py): the    *)
(* loop is a sequential program, so a step that is possible is taken       *)
(***************************************************************************)
MaxRetriesBound == 2

ModelOutcomes ==
    {Returns(<<"a">>), Returns(<<>>), Returns(<<"no", "timeout">>),
     Returns(<<"Error:", "quota">>), Returns(<<"Error:", "Request", "Timeout">>),
     Returns(<<"Error:", "timeout">>),
     RaisesWith(<<"connection">>), RaisesWith(<<"timeout">>),
     RaisesWith(<<"Timeout">>)}

InitGetModel ==
    /\ QuietStore
    /\ pf = PfIdle

NextGetModel ==
    \/ \E max_retries \in -1..MaxRetriesBound : GM_Call(max_retries)
    \/ \E o \in ModelOutcomes : GM_Attempt(o)
    \/ GM_LoopExit

SpecGetModel == InitGetModel /\ [][NextGetModel]_vars /\ WF_vars(NextGetModel)


(***************************************************************************)
(* Specification of generate_integrated_moa_response                       *)
(* (server/moa_integration.py): every get_model_response call is given the *)
(* outcomes of its first and of its second call of prompt_gpt              *)
(***************************************************************************)
IntegratedOutcomes ==
    {Returns(<<"a">>), Returns(<<"b">>), Returns(<<"Error:", "quota">>),
     RaisesWith(<<"timeout">>)}

CallOutcomes == {<<first, second>> : first \in IntegratedOutcomes,
                                     second \in IntegratedOutcomes}

InitIntegrated ==
    /\ QuietStore
    /\ pf = PfIdle

NextIntegrated ==
    \/ GI_Call
    \/ \E outcomes \in CallOutcomes : GI_OpenAI(outcomes)
    \/ \E outcomes \in CallOutcomes : GI_Anthropic(outcomes)
    \/ \E outcomes \in CallOutcomes : GI_DeepSeek(outcomes)
    \/ \E elapsed_under_60 \in BOOLEAN : GI_SkipDeepSeek(elapsed_under_60)
    \/ GI_ReturnError
    \/ GI_ReturnSingle
    \/ \E outcomes \in CallOutcomes : GI_Synthesize(outcomes)

SpecIntegrated == InitIntegrated /\ [][NextIntegrated]_vars


(***************************************************************************)
(* Specification of generate_moa_response_sequential and of the            *)
(* run_model_with_timeout calls it makes (server/moa_sequential.py), with  *)
(* the time in seconds                                                     *)
(***************************************************************************)
TimeStep == 15
MaxSteps == 2

Durations == {k * TimeStep : k \in 0..MaxSteps}

SequentialOutcomes ==
    {Returns(<<"a">>), Returns(<<"Error:", "quota">>), RaisesWith(<<"connection">>)}

InitSequential ==
    /\ QuietStore
    /\ pf = PfIdle

NextSequential ==
    \/ SQ_Call
    \/ SQ_Skip
    \/ SQ_Attempt
    \/ RM_Enter
    \/ \E o \in SequentialOutcomes, d \in Durations : RM_Response(o, d)
    \/ \E handled_in_call \in BOOLEAN : RM_Alarm(handled_in_call)
    \/ RM_Return
    \/ RM_Finally
    \/ SQ_ReturnError
    \/ SQ_ReturnSingle
    \/ SQ_Synthesize

SpecSequential == InitSequential /\ [][NextSequential]_vars


(***************************************************************************)
(* Specification of get_llm_responses called with                          *)
(* skip_similarity_search=True, for a row that holds no snapshot, the      *)
(* snapshot find_similar_matches wrote or the one an earlier               *)
(* get_llm_responses run wrote                                             *)
(***************************************************************************)
\* the snapshots of one and of two matches, as each of the two writers
\* stores them
StoredMatches ==
    {<<[id |-> 1, similarity_score |-> [num |-> 1, den2 |-> 1]]>>,
     <<[id |-> 2, similarity_score |-> [num |-> 1, den2 |-> 1]]>>,
     <<[id |-> 3, similarity_score |-> [num |-> 1, den2 |-> 1]],
       [id |-> 2, similarity_score |-> [num |-> 9, den2 |-> 90]]>>}

StoredSnapshots ==
    {SimilarQuestionsForDb(ms) : ms \in StoredMatches}
        \cup {SimilarQuestionsList(SimilarResults(SuccessResult(ms))) : ms \in StoredMatches}

SkipOutcomes == {Raises, Content(<<"a">>)}

InitSkip ==
    /\ \E v \in {NULL, Some(<<1, 0>>)} :
           embeddings = [i \in CorpusIds |->
                           [requirement |-> i,
                            embedding |-> IF i = 1 THEN v ELSE NULL]]
    /\ \E sq \in {NULL} \cup {Some(x) : x \in StoredSnapshots} :
           table = [i \in ExistingIds |->
                      [requirement |-> 1, similar_questions |-> sq,
                       openai_response |-> NULL, deepseek_response |-> NULL,
                       anthropic_response |-> NULL, final_response |-> NULL,
                       model_provider |-> NULL]]
    /\ embed_of = <<1, 0>>
    /\ fm = FmIdle
    /\ fm_result = None
    /\ fm_writes = 0
    /\ moa = MoaIdle
    /\ parked = NoRun
    /\ gl = GlIdle
    /\ pf = PfIdle
    /\ env = NoEnv

NextSkip ==
    \/ \E rid \in ReqIds, model \in {"moa", "anthropic"} : GL_CallSkip(rid, model)
    \/ \E e \in BOOLEAN : GL_Lookup(e)
    \/ \E e \in BOOLEAN : GL_Existing(e)
    \/ GL_Search
    \/ FM_Lookup(FALSE)
    \/ FM_CountCheck(FALSE)
    \/ FM_Embed(FALSE, FALSE)
    \/ FM_Scan(FALSE)
    \/ FM_Store(FALSE)
    \/ GL_SearchDone
    \/ \E o \in SkipOutcomes : GL_Provider(o)
    \/ GL_Evaluate
    \/ \E o \in SkipOutcomes : GL_Synthesize(o)
    \/ \E e \in BOOLEAN : GL_Save(e)
    \/ \E o \in SkipOutcomes : GL_Single(o)
    \/ \E e \in BOOLEAN : GL_SaveSingle(e)

SpecSkip == InitSkip /\ [][NextSkip]_vars


(***************************************************************************)
(* Specification of concurrent runs of get_llm_responses for one           *)
(* requirement: two runs are in progress, one of them executing and the    *)
(* other parked, and the steps of the two interleave in any order.  Every  *)
(* answer of a provider names the provider and the number of the call.     *)
(* No embeddings row holds the requirement's text, so the similarity       *)
(* search of every run ends at its count check.                            *)
(***************************************************************************)
MaxCalls == 3

ConcurrentModels == {"moa", "openai", "claude"}

\* what a provider answers to the call numbered `call`; the calls of OpenAI
\* (generation and synthesis) may fail as well
Answers(model_name, call) ==
    {Content(<<model_name, DigitChar(call)>>)}
        \cup (IF model_name \in {"openai", "moa"} THEN {Raises} ELSE {})

InitConcurrent ==
    /\ embeddings = [i \in CorpusIds |-> [requirement |-> i, embedding |-> NULL]]
    /\ table = [i \in ExistingIds |->
                  [requirement |-> 0, similar_questions |-> NULL,
                   openai_response |-> NULL, deepseek_response |-> NULL,
                   anthropic_response |-> NULL, final_response |-> NULL,
                   model_provider |-> NULL]]
    /\ embed_of = <<1, 0>>
    /\ fm = FmIdle
    /\ fm_result = None
    /\ fm_writes = 0
    /\ moa = MoaIdle
    /\ gl = GlIdle
    /\ pf = PfIdle
    /\ env = [fixed |-> FALSE, call |-> 1, calls |-> 2]
    /\ parked = [pc |-> "run", gl |-> GlIdle, fm |-> FmIdle, fm_result |-> None,
                 fm_writes |-> 0, call |-> 2]

\* the scheduler takes the processor from the executing run and gives it to
\* the parked one
CC_Switch ==
    /\ parked.pc = "run"
    /\ gl' = parked.gl
    /\ fm' = parked.fm
    /\ fm_result' = parked.fm_result
    /\ fm_writes' = parked.fm_writes
    /\ parked' = [pc |-> "run", gl |-> gl, fm |-> fm, fm_result |-> fm_result,
                  fm_writes |-> fm_writes, call |-> env.call]
    /\ env' = [env EXCEPT !.call = parked.call]
    /\ UNCHANGED <<moa, pf, embeddings, table, embed_of>>

\* the executing run has ended and its caller is free to call again
CC_Return ==
    /\ gl.pc = "done"
    /\ env.calls < MaxCalls
    /\ gl' = GlIdle
    /\ env' = [env EXCEPT !.calls = @ + 1, !.call = env.calls + 1]
    /\ UNCHANGED <<moa, parked, pf, embeddings, table, embed_of, fm, fm_result, fm_writes>>

NextConcurrent ==
    \/ \E rid \in ExistingIds, model \in ConcurrentModels : GL_Call(rid, model)
    \/ GL_Lookup(FALSE)
    \/ GL_Search
    \/ FM_Lookup(FALSE)
    \/ FM_CountCheck(FALSE)
    \/ GL_SearchDone
    \/ \E o \in Answers("openai", env.call)
                    \cup Answers("deepseek", env.call)
                    \cup Answers("anthropic", env.call) :
          /\ gl.pc = "fanout"
          /\ gl.idx <= Len(Providers)
          /\ o \in Answers(Providers[gl.idx], env.call)
          /\ GL_Provider(o)
    \/ GL_Evaluate
    \/ \E o \in Answers("moa", env.call) : GL_Synthesize(o)
    \/ GL_Save(FALSE)
    \/ \E o \in Answers("openai", env.call) \cup Answers("anthropic", env.call) :
          /\ gl.pc = "single"
          /\ o \in Answers(NormalizedName(gl.model), env.call)
          /\ GL_Single(o)
    \/ GL_SaveSingle(FALSE)
    \/ CC_Switch
    \/ CC_Return

SpecConcurrent == InitConcurrent /\ [][NextConcurrent]_vars

=============================================================================
